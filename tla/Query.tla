------------------------------- MODULE Query -------------------------------
(***************************************************************************)
(* GET, AGG and DEL as record.cc handles them, one request after another.  *)
(* The members that a request works on outlive it: request_, read_data_,   *)
(* lg_ and lg_stack_ (Logical.tla).  Only the loops that change one of     *)
(* these in place are taken step by step.                                  *)
(*                                                                         *)
(* data_ is the sequence in which its iterator meets the records.  Ids of  *)
(* the fields to order by are those of fields, as clients send them.       *)
(***************************************************************************)
EXTENDS Logical

CONSTANT Sessions  \* the tables to start from, each with its requests

\* A request as the parsers read it; each kind uses some of its parts.
Request ==
  [fields : Seq(Int), keys : Seq(STRING), where : Condition,
   order : Seq([id : Field, type : Int]), offset : Int, size : Int,
   aggs : Seq([aid : Int, fid : Int]), group : Seq(Int)]
Message == [op : {"GET", "AGG", "DEL"}, req : Request]

\* data_ is a map: no key occurs twice.
KeysDiffer(d) == \A i, j \in DOMAIN d : d[i].key = d[j].key => i = j

ASSUME QueryAssumption ==
  \A s \in Sessions :
    /\ s.data \in Seq([key : STRING, row : Row]) /\ KeysDiffer(s.data)
    /\ s.requests \in Seq(Message)

\* A string has one place in Texts, and the empty one has a place.
ASSUME TextsAssumption ==
  /\ \A i, j \in DOMAIN Texts : Texts[i] = Texts[j] => i = j
  /\ \E i \in DOMAIN Texts : Texts[i] = <<>>

VARIABLES
  data,     \* data_
  todo,     \* the requests to come, the current one first
  phase,    \* "idle", or the loop that the current request is in
  request,  \* request_
  found,    \* read_data_
  p, size,  \* the two cursors of a filter; p is also that of AGG and DEL
  groups,   \* map_data
  answer,   \* the answer to the last request
  asked, before  \* (history) the last request and data_ when it came

queryVars == <<data, todo, phase, request, found, p, size, groups, answer, asked, before>>
vars == <<queryVars, logicalVars>>

Op == Head(todo).op

NoGroups == [k \in {} |-> 0]
NoRequest == [fields |-> <<>>, keys |-> <<>>, where |-> <<>>, order |-> <<>>, offset |-> 0,
              size |-> -1, aggs |-> <<>>, group |-> <<>>]

Init ==
  /\ LogicalInit
  /\ \E s \in Sessions : data = s.data /\ todo = s.requests
  /\ phase = "idle" /\ request = NoRequest
  /\ found = <<>> /\ p = 1 /\ size = 0 /\ groups = NoGroups
  /\ answer = [kind |-> "none"] /\ asked = [op |-> "none"] /\ before = data

Reply(a) == phase' = "idle" /\ todo' = Tail(todo) /\ answer' = a
Failure == [kind |-> "error"]

Receive(op) ==
  /\ phase = "idle" /\ todo # <<>> /\ Op = op
  /\ asked' = Head(todo) /\ before' = data

\* The test of a field id.  -1 stands for all fields; the id one past the last
\* is let through.
Ids == 0 .. NumFields
IdsOrAll == {-1} \cup Ids

\* What the loop over s has taken over when it meets an element whose id fails.
Until(s, ids, accepted) ==
  SubSeq(s, 1, Min({i \in DOMAIN s : ids[i] \notin accepted} \cup {Len(s) + 1}) - 1)

\* The rest of a handler begins with the condition, if there is one.
BeginWhere(where, otherwise) ==
  IF where = <<>> THEN phase' = otherwise /\ UNCHANGED logicalVars
                  ELSE phase' = "where" /\ LoadLogical(where)

Records(d) == [i \in DOMAIN d |-> d[i].row]

-----------------------------------------------------------------------------
(* parse_get_request, and the selection of opt_get by keys. *)

EveryField == [i \in 1 .. NumFields |-> i - 1]
Requested(fs) == IF fs[1] = -1 THEN EveryField ELSE fs

\* Everything but aggs and group is cleared first; the mutation forgets keys.
ParsedUncleared(r) ==
  [r EXCEPT !.fields = Requested(@), !.keys = request.keys \o @,
            !.aggs = request.aggs, !.group = request.group]
Parsed(r) ==
  [r EXCEPT !.fields = Requested(@), !.aggs = request.aggs, !.group = request.group]

\* data_.find(k): the place of the record with key k, if there is one.
At(d, k) == {i \in DOMAIN d : d[i].key = k}

\* The keys that exist, in the order asked for, as often as they are asked for.
Select(rows, k) == IF At(data, k) = {} THEN rows ELSE Append(rows, data[Min(At(data, k))].row)
Selected(keys) == FoldLeft(Select, <<>>, keys)

GetRefused ==
  /\ Receive("GET")
  /\ LET fs == Head(todo).req.fields IN
     /\ fs = <<>> \/ ~(ToSet(fs) \subseteq IdsOrAll)
     /\ request' = [NoRequest EXCEPT !.aggs = request.aggs, !.group = request.group,
                      !.fields = Until(fs, fs, IdsOrAll)]
  /\ Reply(Failure)
  /\ UNCHANGED <<data, found, p, size, groups, logicalVars>>

GetParsed ==
  /\ Receive("GET")
  /\ LET r == Head(todo).req IN
     /\ r.fields # <<>> /\ ToSet(r.fields) \subseteq IdsOrAll
     /\ request' = Parsed(r)
  /\ found' = IF request'.keys = <<>> THEN Records(data) ELSE Selected(request'.keys)
  /\ BeginWhere(request'.where, "sort")
  /\ UNCHANGED <<data, todo, p, size, groups, answer>>

(* parse_agg_request; DEL may have left keys in request_, which AGG ignores. *)

Fids(aggs) == [i \in DOMAIN aggs |-> aggs[i].fid]

AggRefused ==
  /\ Receive("AGG")
  /\ LET r == Head(todo).req
         aggsFit == r.aggs # <<>> /\ ToSet(Fids(r.aggs)) \subseteq Ids
     IN
     /\ ~aggsFit \/ ~(ToSet(r.group) \subseteq Ids)
     /\ request' = [request EXCEPT !.aggs = Until(r.aggs, Fids(r.aggs), Ids),
                      !.where = IF aggsFit THEN r.where ELSE <<>>,
                      !.group = IF aggsFit THEN Until(r.group, r.group, Ids) ELSE <<>>]
  /\ Reply(Failure)
  /\ UNCHANGED <<data, found, p, size, groups, logicalVars>>

AggParsed ==
  /\ Receive("AGG")
  /\ LET r == Head(todo).req IN
     /\ r.aggs # <<>> /\ ToSet(Fids(r.aggs)) \subseteq Ids /\ ToSet(r.group) \subseteq Ids
     /\ request' = [request EXCEPT !.aggs = r.aggs, !.where = r.where, !.group = r.group]
  /\ BeginWhere(request'.where, "group")
  /\ found' = Records(data) /\ p' = 1 /\ groups' = NoGroups
  /\ UNCHANGED <<data, todo, size, answer>>

(* parse_del_request: with keys, the condition is not looked at. *)

Erased(d, k) == IF At(d, k) = {} THEN d ELSE RemoveAt(d, Min(At(d, k)))

ParsedDel(r) == [request EXCEPT !.keys = r.keys, !.where = r.where]

DelKeys ==
  /\ Receive("DEL")
  /\ request' = ParsedDel(Head(todo).req)
  /\ request'.keys # <<>> \/ request'.where = <<>>
  /\ data' = FoldLeft(Erased, data, request'.keys)
  /\ Reply([kind |-> "count", count |-> Len(data) - Len(data')])
  /\ UNCHANGED <<found, p, size, groups, logicalVars>>

DelWhere ==
  /\ Receive("DEL")
  /\ request' = ParsedDel(Head(todo).req)
  /\ request'.keys = <<>> /\ request'.where # <<>>
  /\ BeginWhere(request'.where, "delete")
  /\ UNCHANGED <<data, todo, found, p, size, groups, answer>>

-----------------------------------------------------------------------------
(* The condition: loaded once, evaluated for every record. *)

LoadWhere == phase = "where" /\ LoadStep /\ UNCHANGED queryVars

WhereRefused ==
  /\ phase = "where" /\ pc = "refused"
  /\ Reply(Failure)
  /\ UNCHANGED <<data, request, found, p, size, groups, asked, before, logicalVars>>

WhereAccepted ==
  /\ phase = "where" /\ pc = "ready"
  /\ phase' = IF Op = "DEL" THEN "delete" ELSE "filter"
  /\ p' = 1 /\ size' = 0
  /\ UNCHANGED <<data, todo, request, found, groups, answer, asked, before, logicalVars>>

EvaluateWhere == phase \in {"filter", "delete"} /\ EvaluateStep /\ UNCHANGED queryVars

FilterBegin ==
  /\ phase = "filter" /\ p <= Len(found) /\ BeginEvaluate(found[p])
  /\ UNCHANGED queryVars

\* read_data_[size++] = value, in the vector that is being read.
FilterEnd ==
  /\ phase = "filter" /\ EndEvaluate
  /\ found' = IF Result = "T" THEN [found EXCEPT ![size + 1] = value] ELSE found
  /\ size' = IF Result = "T" THEN size + 1 ELSE size
  /\ p' = p + 1
  /\ UNCHANGED <<data, todo, phase, request, groups, answer, asked, before>>

\* read_data_.resize(size).
Filtered ==
  /\ phase = "filter" /\ pc = "ready" /\ p > Len(found)
  /\ found' = SubSeq(found, 1, size)
  /\ phase' = IF Op = "GET" THEN "sort" ELSE "group"
  /\ p' = 1
  /\ UNCHANGED <<data, todo, request, size, groups, answer, asked, before, logicalVars>>

DeleteBegin ==
  /\ phase = "delete" /\ p <= Len(data) /\ BeginEvaluate(data[p].row)
  /\ UNCHANGED queryVars

\* erase returns the next iterator; the mutation advances it once more.
AdvancedAlways(erased) == p + 1
Advanced(erased) == IF erased THEN p ELSE p + 1

DeleteEnd ==
  /\ phase = "delete" /\ EndEvaluate
  /\ data' = IF Result = "T" THEN RemoveAt(data, p) ELSE data
  /\ p' = Advanced(Result = "T")
  /\ UNCHANGED <<todo, phase, request, found, size, groups, answer, asked, before>>

Deleted ==
  /\ phase = "delete" /\ pc = "ready" /\ p > Len(data)
  /\ Reply([kind |-> "count", count |-> Len(before) - Len(data)])
  /\ UNCHANGED <<data, request, found, p, size, groups, asked, before, logicalVars>>

-----------------------------------------------------------------------------
(* The sort and the answer of opt_get. *)

LowestByte(n) == ((n + 128) % 256) - 128

OrderInField(f, a, b) ==
  CASE FieldType[f] = "kchar" -> OrderOfStrings(Texts[a[f]], Texts[b[f]])
    [] FieldType[f] = "kint8" -> Sign(LowestByte(a[f]) - LowestByte(b[f]))
    [] OTHER -> Sign(a[f] - b[f])

Goes(o, a, b) == IF o.type = 1 THEN OrderInField(o.id, a, b) < 0 ELSE OrderInField(o.id, a, b) > 0

\* The first field that has a branch decides, on a tie too: kint1 has none,
\* because the branch that is meant for it asks for kint8.
Compare(a, b) ==
  LET decides == {i \in DOMAIN request.order : FieldType[request.order[i].id] # "kint1"}
  IN decides # {} /\ Goes(request.order[Min(decides)], a, b)

\* std::sort: any order that compare allows.
Sort ==
  /\ phase = "sort"
  /\ IF request.order = <<>> THEN found' = found
     ELSE \E f \in Bijection(DOMAIN found, DOMAIN found) :
            /\ found' = [i \in DOMAIN found |-> found[f[i]]]
            /\ \A i, j \in DOMAIN found : i < j => ~Compare(found'[j], found'[i])
  /\ phase' = "emit"
  /\ UNCHANGED <<data, todo, request, p, size, groups, answer, asked, before, logicalVars>>

\* i < size && i + offset < read_data_.size(), where a negative sum is converted
\* to a large unsigned number.
Emitted ==
  LET n == IF request.size = -1 THEN Len(found) ELSE request.size
  IN {i \in 0 .. Len(found) - 1 : i < n /\ request.offset >= 0 /\ i + request.offset < Len(found)}

Projection(fields, row) == [j \in DOMAIN fields |-> row[fields[j]]]
InFields(fields) == \A j \in DOMAIN fields : fields[j] \in Field

Emit ==
  /\ phase = "emit" /\ (Emitted = {} \/ InFields(request.fields))
  /\ Reply([kind |-> "rows",
            rows |-> [i \in 1 .. Cardinality(Emitted) |->
                        Projection(request.fields, found[i + request.offset])]])
  /\ UNCHANGED <<data, request, found, p, size, groups, asked, before, logicalVars>>

-----------------------------------------------------------------------------
(* The groups of opt_agg.  An accumulator is an agg_item_t. *)

\* make_key_by_group: strings with their length before them, numbers in a fixed
\* number of bytes; the mutation leaves the length out.
BytesUnmeasured(f, v) == IF f \in CharField THEN Texts[v] ELSE <<v>>
Bytes(f, v) == IF f \in CharField THEN <<Len(Texts[v])>> \o Texts[v] ELSE <<v>>
GroupKey(group, row) == FlattenSeq([i \in DOMAIN group |-> Bytes(group[i], row[group[i]])])

\* The accumulators of a new group: sums, maxima and minima begin with 0, and
\* strings with the empty one.
EmptyText == CHOOSE i \in DOMAIN Texts : Texts[i] = <<>>
Start(f) == IF f \in CharField THEN EmptyText ELSE 0
Item(a) == [count |-> 0, sum |-> 0, max |-> Start(a.fid), min |-> Start(a.fid)]
Items == [i \in DOMAIN request.aggs |-> Item(request.aggs[i])]

LessIn(f, a, b) == IF f \in CharField THEN OrderOfStrings(Texts[a], Texts[b]) < 0 ELSE a < b

Added(item, a, v) ==
  [count |-> item.count + 1,
   sum |-> IF a.aid \in {2, 3} THEN item.sum + v ELSE item.sum,
   max |-> IF a.aid = 4 /\ LessIn(a.fid, item.max, v) THEN v ELSE item.max,
   min |-> IF a.aid = 5 /\ LessIn(a.fid, v, item.min) THEN v ELSE item.min]

InAggs == \A i \in DOMAIN request.aggs : request.aggs[i].fid \in Field

Accumulate ==
  /\ phase = "group" /\ p <= Len(found) /\ InAggs /\ InFields(request.group)
  /\ LET row == found[p]
         key == GroupKey(request.group, row)
         items == IF key \in DOMAIN groups THEN groups[key] ELSE Items
         added == [i \in DOMAIN items |->
                     Added(items[i], request.aggs[i], row[request.aggs[i].fid])]
     IN groups' = [k \in DOMAIN groups \cup {key} |-> IF k = key THEN added ELSE groups[k]]
  /\ p' = p + 1
  /\ UNCHANGED <<data, todo, phase, request, found, size, answer, asked, before, logicalVars>>

\* Functions 1 to 5 are count, sum, avg, max and min; others give nothing.
Output(a, item) ==
  CASE a.aid = 1 -> <<item.count>>
    [] a.aid = 2 -> <<item.sum>>
    [] a.aid = 3 -> <<item.sum, item.count>>
    [] a.aid = 4 -> <<item.max>>
    [] a.aid = 5 -> <<item.min>>
    [] OTHER -> <<>>

PutGroups ==
  /\ phase = "group" /\ p > Len(found) /\ InAggs
  /\ Reply([kind |-> "groups",
            groups |-> [k \in DOMAIN groups |->
                          [i \in DOMAIN request.aggs |-> Output(request.aggs[i], groups[k][i])]]])
  /\ UNCHANGED <<data, request, found, p, size, groups, asked, before, logicalVars>>

\* The id one past the last: fields_ is read past its end.
ReadsBeyond ==
  /\ \/ phase = "emit" /\ Emitted # {} /\ ~InFields(request.fields)
     \/ phase = "group" /\ ~InAggs
     \/ phase = "group" /\ p <= Len(found) /\ InAggs /\ ~InFields(request.group)
  /\ phase' = "undefined"
  /\ UNCHANGED <<data, todo, request, found, p, size, groups, answer, asked, before, logicalVars>>

Next ==
  \/ GetRefused \/ GetParsed \/ AggRefused \/ AggParsed \/ DelKeys \/ DelWhere
  \/ LoadWhere \/ WhereRefused \/ WhereAccepted \/ EvaluateWhere
  \/ FilterBegin \/ FilterEnd \/ Filtered
  \/ DeleteBegin \/ DeleteEnd \/ Deleted
  \/ Sort \/ Emit \/ Accumulate \/ PutGroups \/ ReadsBeyond

Spec == Init /\ [][Next]_vars

-----------------------------------------------------------------------------

\* The members keep their types between requests and in them, those of the
\* condition included, and the filter never writes past what it has read.
QueryTypeOK ==
  /\ LogicalTypeOK
  /\ data \in Seq([key : {e.key : e \in ToSet(before)}, row : Row])
  /\ phase \in {"idle", "where", "filter", "delete", "sort", "emit", "group", "undefined"}
  /\ found \in Seq(Row)
  /\ phase = "filter" => size < p /\ p <= Len(found) + 1
  /\ phase = "delete" => p <= Len(data) + 1
  /\ \A k \in DOMAIN groups : phase = "group" => Len(groups[k]) = Len(request.aggs)

Picks(where, row) == where = <<>> \/ TRUE \in Truths(where, row)
Picked(where, d) == {i \in DOMAIN d : Picks(where, d[i].row)}

\* The elements of s at the places I, in their order.
Kept(s, I) ==
  LET kept[n \in 0 .. Len(s)] ==
        IF n = 0 THEN <<>>
        ELSE IF n \in I THEN Append(kept[n - 1], s[n]) ELSE kept[n - 1]
  IN kept[Len(s)]
Wanted(where, d) == Kept(Records(d), Picked(where, d))

\* The records with the keys that there are.
ByKeys(keys, d) ==
  LET there == Kept(keys, {i \in DOMAIN keys : At(d, keys[i]) # {}})
  IN [i \in DOMAIN there |-> d[CHOOSE j \in DOMAIN d : d[j].key = there[i]]]

\* The order that a client asks for: the fields one after another.
Precedes(order, a, b) ==
  \E k \in DOMAIN order :
    /\ \A i \in 1 .. k - 1 : a[order[i].id] = b[order[i].id]
    /\ LET f == order[k].id
           x == IF order[k].type = 1 THEN a ELSE b
           y == IF order[k].type = 1 THEN b ELSE a
       IN LessIn(f, x[f], y[f])

\* Departures: fields after the first do not count, an int1 field does not
\* either, nor does an int8 field with a value of more than a byte.
Counts(o, d) ==
  CASE FieldType[o.id] = "kint1" -> FALSE
    [] FieldType[o.id] = "kint8" -> \A i \in DOMAIN d : d[i].row[o.id] \in -128 .. 127
    [] OTHER -> TRUE
Counted(order, d) == IF order # <<>> /\ Counts(order[1], d) THEN <<order[1]>> ELSE <<>>

\* What lies between offset and offset + size, or behind offset if size is -1.
Slice(s, offset, n) ==
  LET inside == {i \in DOMAIN s : offset < i /\ (n = -1 \/ i <= offset + n)}
  IN IF offset < 0 THEN <<>> ELSE [i \in 1 .. Cardinality(inside) |-> s[offset + i]]

IsAnswerTo(rows, r, d) ==
  LET wanted == Wanted(r.where, IF r.keys = <<>> THEN d ELSE ByKeys(r.keys, d))
      fields == IF r.fields[1] = -1 THEN EveryField ELSE r.fields
  IN \E f \in Bijection(DOMAIN wanted, DOMAIN wanted) :
       LET s == [i \in DOMAIN wanted |-> wanted[f[i]]]
           slice == Slice(s, r.offset, r.size)
       IN /\ \A i, j \in DOMAIN s : i < j => ~Precedes(Counted(r.order, d), s[j], s[i])
          /\ rows = [i \in DOMAIN slice |-> Projection(fields, slice[i])]

WhereFits(where) == where = <<>> \/ InGrammar(where)

\* A GET answers with the fields asked for, of the slice asked for, of the
\* records asked for, in the order asked for, whatever requests came before; it
\* is refused for its fields or its condition only, and changes no record.
GetExact ==
  phase = "idle" /\ asked.op = "GET" =>
    /\ data = before
    /\ IF answer.kind = "rows"
       THEN WhereFits(asked.req.where) /\ IsAnswerTo(answer.rows, asked.req, before)
       ELSE \/ asked.req.fields = <<>> \/ ~(ToSet(asked.req.fields) \subseteq IdsOrAll)
            \/ ~WhereFits(asked.req.where)

\* Departures: the greatest of negative numbers is 0, as is the least of positive
\* ones, and the least of strings is empty.
Greatest(f, vs) ==
  IF f \in NumField THEN Max(vs \cup {0})
  ELSE CHOOSE v \in vs : \A w \in vs : ~LessIn(f, v, w)
Least(f, vs) == IF f \in NumField THEN Min(vs \cup {0}) ELSE EmptyText

SumOf(f, rows) == FoldLeft(LAMBDA t, row : t + row[f], 0, rows)

Aggregate(a, rows) ==
  LET f == a.fid
      n == Len(rows)
      total == SumOf(f, rows)
      vs == {rows[i][f] : i \in DOMAIN rows}
  IN CASE a.aid = 1 -> <<n>> [] a.aid = 2 -> <<total>> [] a.aid = 3 -> <<total, n>>
       [] a.aid = 4 -> <<Greatest(f, vs)>> [] a.aid = 5 -> <<Least(f, vs)>> [] OTHER -> <<>>

Alike(group, a, b) == \A i \in DOMAIN group : a[group[i]] = b[group[i]]

\* An AGG answers with one group for each combination of values that the records
\* picked have in the fields to group by, and each group with the aggregates of
\* exactly the records that have them.
AggExact ==
  phase = "idle" /\ asked.op = "AGG" =>
    LET r == asked.req
        wanted == Wanted(r.where, before)
        rows == ToSet(wanted)
    IN
    /\ data = before
    /\ IF answer.kind = "groups"
       THEN /\ WhereFits(r.where)
            /\ DOMAIN answer.groups = {GroupKey(r.group, row) : row \in rows}
            /\ \A row \in rows :
                 answer.groups[GroupKey(r.group, row)] =
                   [i \in DOMAIN r.aggs |->
                      Aggregate(r.aggs[i], Kept(wanted, {j \in DOMAIN wanted :
                                                            Alike(r.group, wanted[j], row)}))]
       ELSE \/ r.aggs = <<>> \/ ~(ToSet(Fids(r.aggs) \o r.group) \subseteq Ids)
            \/ ~WhereFits(r.where)

\* A DEL leaves the records that it does not name, and counts the others: by key,
\* or by the condition if it names no key.
DelExact ==
  phase = "idle" /\ answer.kind = "count" =>
    LET r == asked.req
        named == IF r.keys # <<>> THEN {i \in DOMAIN before : before[i].key \in ToSet(r.keys)}
                 ELSE IF r.where # <<>> THEN Picked(r.where, before) ELSE {}
    IN /\ data = Kept(before, DOMAIN before \ named)
       /\ answer.count = Cardinality(named)
=============================================================================
