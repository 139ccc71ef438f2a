-------------------------------- MODULE Meta --------------------------------
(***************************************************************************)
(* meta.cc: load_config reads the [field] and the [formula] section of     *)
(* db.conf line by line, and then looks in has_circle for a cycle among    *)
(* the formulas, one level of its worklist per step.  The configuration    *)
(* file is the environment: any line may come next.                        *)
(***************************************************************************)
EXTENDS Naturals, Sequences, FiniteSets, SequencesExt

CONSTANTS
  Name,       \* names of fields
  MaxFields   \* the 16000 of load_config and of db.conf

ASSUME MetaAssumption == MaxFields \in Nat

VARIABLES
  pc,      \* "fields", "formulas", "check", "accepted" or "refused"
  names,   \* fields_: the names of the fields, a field's id is its index
  deps,    \* the fields that the formula of each field reads
  fid,     \* the field has_circle is asked about
  curr,    \* its worklist
  seen     \* (history) the fields that have been on it

vars == <<pc, names, deps, fid, curr, seen>>
checkVars == <<fid, curr, seen>>

Ids == DOMAIN deps

\* Field::decide: the fields whose formulas read f.
Decide(f) == {g \in Ids : f \in deps[g]}

Init ==
  /\ pc = "fields" /\ names = <<>> /\ deps = [f \in {} |-> {}]
  /\ fid = 0 /\ curr = {} /\ seen = {}

Refuse == pc' = "refused" /\ UNCHANGED <<names, deps, checkVars>>

-----------------------------------------------------------------------------
(* The section [field].                                                    *)

\* A line that tofield refuses.
BadField == pc = "fields" /\ Refuse

\* The number of fields is looked at before the field is added.
TooMany == pc = "fields" /\ Len(names) > MaxFields /\ Refuse

Repeated == pc = "fields" /\ names # <<>> /\ Refuse

AddField ==
  /\ pc = "fields" /\ Len(names) <= MaxFields
  /\ \E n \in Name \ ToSet(names) : names' = Append(names, n)
  /\ deps' = [f \in Ids \cup {Len(names)} |-> IF f \in Ids THEN deps[f] ELSE {}]
  /\ UNCHANGED <<pc, checkVars>>

EndFields == pc = "fields" /\ pc' = "formulas" /\ UNCHANGED <<names, deps, checkVars>>

-----------------------------------------------------------------------------
(* The section [formula].                                                  *)

\* A line without one `=', with an unknown name, a char field on its left or an
\* expression that load_expression or check_expression refuses.
BadFormula == pc = "formulas" /\ Refuse

\* What the formula of f reads once a line says that it reads D: a second line
\* for a field is appended to the first.
Reads(f, D) == deps[f] \cup D

AddFormula ==
  /\ pc = "formulas"
  /\ \E f \in Ids, D \in SUBSET Ids : deps' = [deps EXCEPT ![f] = Reads(f, D)]
  /\ UNCHANGED <<pc, names, checkVars>>

Begin(f) == IF f \in Ids THEN Decide(f) ELSE {}

EndFormulas ==
  /\ pc = "formulas" /\ pc' = "check"
  /\ fid' = 0 /\ curr' = Begin(0) /\ seen' = {}
  /\ UNCHANGED <<names, deps>>

-----------------------------------------------------------------------------
(* has_circle of each field in turn.                                       *)

\* The loop over the fields goes on; the mutation has <= for <.
MoreLate == fid <= Len(names)
More == fid < Len(names)

\* The test of one level; the mutation takes a field met twice for a cycle.
MetTwice == curr \cap seen # {} \/ fid \in curr
Found == fid \in curr

\* What follows a level; the mutations stay at the first level, and never let go
\* of one.
OneLevel == {}
Accumulated == curr \cup UNION {Decide(g) : g \in curr}
Following == UNION {Decide(g) : g \in curr}

HasCircle == pc = "check" /\ curr # {} /\ Found /\ Refuse

NextLevel ==
  /\ pc = "check" /\ curr # {} /\ ~Found
  /\ curr' = Following
  /\ seen' = seen \cup curr
  /\ UNCHANGED <<pc, names, deps, fid>>

NextField ==
  /\ pc = "check" /\ More /\ curr = {}
  /\ fid' = fid + 1 /\ curr' = Begin(fid + 1) /\ seen' = {}
  /\ UNCHANGED <<pc, names, deps>>

Accept ==
  /\ pc = "check" /\ ~More
  /\ pc' = "accepted"
  /\ UNCHANGED <<names, deps, checkVars>>

Check == HasCircle \/ NextLevel \/ NextField \/ Accept

Next ==
  \/ BadField \/ TooMany \/ Repeated \/ AddField \/ EndFields
  \/ BadFormula \/ AddFormula \/ EndFormulas
  \/ Check

Spec == Init /\ [][Next]_vars

\* Once the file is read load_config runs on by itself.
FairSpec == Spec /\ WF_vars(Check)

-----------------------------------------------------------------------------

MetaTypeOK ==
  /\ pc \in {"fields", "formulas", "check", "accepted", "refused"}
  /\ names \in Seq(Name)
  /\ deps \in [0 .. Len(names) - 1 -> SUBSET (0 .. Len(names) - 1)]
  /\ fid \in 0 .. Len(names)
  /\ curr \subseteq Ids /\ seen \subseteq Ids

\* Closed under "has a formula that reads".
Closed(R) == \A g \in R : Decide(g) \subseteq R

\* f depends on itself: it is in every closed set that what it decides is in.
OnCycle(f) == \A R \in SUBSET Ids : Decide(f) \subseteq R /\ Closed(R) => f \in R

Acyclic == \A f \in Ids : ~OnCycle(f)

\* No configuration is accepted in which computing the formulas could go round
\* in a circle, however long (meta.cc:230-236, meta.h:43).
AcceptedAcyclic == pc = "accepted" => Acyclic

\* has_circle refuses for a cycle only, not because two formulas lead to the
\* same field (meta.cc:241-257).
RefusedForCycle == [][pc = "check" /\ pc' = "refused" => OnCycle(fid)]_vars

\* A configuration without a cycle is accepted in the end, although has_circle
\* keeps no track of where it has been (meta.cc:245-254).
AcyclicAccepted == pc = "check" /\ Acyclic ~> pc = "accepted"

\* Any configuration is accepted or refused: meta.h:43 says that has_circle is
\* what tells whether there is a cycle, so that nothing loops for ever.
CheckEnds == pc = "check" ~> pc # "check"
=============================================================================
