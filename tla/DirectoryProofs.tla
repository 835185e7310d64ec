-------------------------- MODULE DirectoryProofs --------------------------
(***************************************************************************)
(* Theorems about the publication of the directory, for any executions,    *)
(* companies, departments and number of changes at the providers.          *)
(*                                                                         *)
(* The directory is one view because a transaction that has its locks is   *)
(* alone between what it reads and what it writes (Writes).  A view that   *)
(* no change met is whole because what an acquisition has is, page by      *)
(* page, the part of the provider's facts that its pages hold (Acquires).  *)
(***************************************************************************)
EXTENDS DirectorySync, TLAPS, SequenceTheorems, FiniteSetTheorems

Unfinished == {"none", "departments", "companies", "publish", "write", "report"}

(* The step of an execution tells what it has published.                   *)
Stands(e) ==
    /\ run[e].step = "none" => run[e] = NoRun
    /\ run[e].kind = "none" <=> run[e].step = "none"
    /\ run[e].step \in Unfinished => ~published[e].done
    /\ run[e].step \in Unfinished \ {"write", "report"} => run[e].outcome = "none"
    /\ run[e].step \in Unfinished \ {"none"} => record[e].status = "started"
    /\ run[e].step \in {"match", "matched"} =>
          /\ run[e].kind = "apply" /\ published[e].done
          /\ published[e].facts = record[e].snapshot

(* A transaction that has its locks is alone.                              *)
Writes(e) ==
    /\ run[e].step \in {"publish", "write"} => Closed(run[e].facts)
    /\ run[e].step = "write" =>
          held["acessorias"] = e /\ run[e].seen = present

(* What it concluded from the rows of other executions still holds.        *)
Judged(e) ==
    run[e].step = "write" /\ run[e].outcome # "none" =>
        run[e].outcome = Outcome(e)

(* No version is of the future.                                            *)
Versions ==
    /\ contacts <= changes
    /\ \A e \in Executions : run[e].version <= changes

(* The provider's list and its facts agree.                                *)
Provider ==
    /\ \A i, j \in DOMAIN listed : listed[i] = listed[j] => i = j
    /\ \A i \in DOMAIN listed : listed[i] \in offered
    /\ \A x \in Companies \cap offered : \E i \in DOMAIN listed : listed[i] = x
    /\ Closed(offered)

(* The provider's facts that the pages read hold.                          *)
OnPages(facts, read) ==
    {f \in facts : \/ f \in Targets
                   \/ \E i \in DOMAIN read :
                        f = read[i] \/ f \in RelationsOf(read[i])}

(* What an acquisition that no change met has so far.                      *)
Acquires(e) ==
    /\ run[e].step \in {"none", "departments"} => run[e].read = <<>>
    /\ asked[e] # {} =>
          /\ asked[e] = offered
          /\ run[e].step = "companies" =>
                /\ Len(run[e].read) <= Len(listed)
                /\ \A i \in DOMAIN run[e].read : run[e].read[i] = listed[i]
                /\ run[e].facts = OnPages(offered, run[e].read)
          /\ run[e].step \in {"publish", "write"} => run[e].facts = offered

(* The inductive invariant.                                                *)
IInv ==
    /\ TypeOK /\ Versions /\ Provider
    /\ \A e \in Executions : Stands(e) /\ Writes(e) /\ Judged(e) /\ Acquires(e)
    /\ DirectoryIsOneView /\ RecordIsTruthful
-----------------------------------------------------------------------------
(* A company that goes leaves the others, once each.                       *)
LEMMA RemovedFromList ==
    ASSUME NEW s \in Seq(Companies), NEW i \in DOMAIN s,
           \A j, k \in DOMAIN s : s[j] = s[k] => j = k
    PROVE  LET t == RemoveAt(s, i)
           IN  /\ t \in Seq(Companies)
               /\ \A j, k \in DOMAIN t : t[j] = t[k] => j = k
               /\ \A j \in DOMAIN t : t[j] # s[i] /\ \E k \in DOMAIN s : t[j] = s[k]
               /\ \A k \in DOMAIN s \ {i} : \E j \in DOMAIN t : t[j] = s[k]
<1> DEFINE a == SubSeq(s, 1, i - 1)
           b == SubSeq(s, i + 1, Len(s))
           t == RemoveAt(s, i)
<1>1. /\ Len(s) \in Nat /\ DOMAIN s = 1..Len(s) /\ i \in 1..Len(s)
  BY LenProperties
<1>2. /\ a \in Seq(Companies) /\ Len(a) = i - 1
      /\ \A j \in 1..(i - 1) : a[j] = s[j]
  BY <1>1, SubSeqProperties
<1>3. /\ b \in Seq(Companies) /\ Len(b) = Len(s) - i
      /\ \A j \in 1..(Len(s) - i) : b[j] = s[i + j]
  BY <1>1, SubSeqProperties
<1>4. /\ t \in Seq(Companies) /\ Len(t) = Len(s) - 1
      /\ \A j \in 1..(i - 1) : t[j] = s[j]
      /\ \A j \in i..(Len(s) - 1) : t[j] = s[j + 1]
  <2>1. t = a \o b
    BY DEF RemoveAt
  <2> HIDE DEF a, b, t
  <2>2. /\ t \in Seq(Companies) /\ Len(t) = Len(a) + Len(b)
        /\ \A j \in 1..(Len(a) + Len(b)) :
              t[j] = IF j <= Len(a) THEN a[j] ELSE b[j - Len(a)]
    BY <2>1, <1>2, <1>3, ConcatProperties
  <2>3. ASSUME NEW j \in i..(Len(s) - 1) PROVE t[j] = s[j + 1]
    <3>1. j - Len(a) \in 1..(Len(s) - i) /\ i + (j - Len(a)) = j + 1
      BY <1>1, <1>2
    <3>2. t[j] = b[j - Len(a)]
      BY <1>1, <1>2, <1>3, <2>2
    <3> QED BY <3>1, <3>2, <1>3
  <2>4. ASSUME NEW j \in 1..(i - 1) PROVE t[j] = s[j]
    BY <1>1, <1>2, <1>3, <2>2
  <2> QED BY <1>1, <1>2, <1>3, <2>2, <2>3, <2>4
<1> HIDE DEF a, b, t
<1>5. DOMAIN t = 1..(Len(s) - 1)
  BY <1>4, LenProperties
<1>6. \A j \in DOMAIN t : \E k \in DOMAIN s \ {i} :
          t[j] = s[k] /\ k = IF j < i THEN j ELSE j + 1
  BY <1>1, <1>4, <1>5
<1>7. \A j, k \in DOMAIN t : t[j] = t[k] => j = k
  BY <1>1, <1>5, <1>6
<1>8. \A k \in DOMAIN s \ {i} : \E j \in DOMAIN t : t[j] = s[k]
  <2> TAKE k \in DOMAIN s \ {i}
  <2>1. CASE k < i
    BY <2>1, <1>1, <1>4, <1>5
  <2>2. CASE k > i
    <3>1. k - 1 \in i..(Len(s) - 1) /\ (k - 1) + 1 = k
      BY <2>2, <1>1
    <3>2. t[k - 1] = s[k]
      BY <3>1, <1>4
    <3> QED BY <3>1, <3>2, <1>1, <1>5
  <2> QED BY <2>1, <2>2, <1>1
<1> QED BY <1>4, <1>6, <1>7, <1>8 DEF t
-----------------------------------------------------------------------------
(* Before anything ran every part of the invariant holds.                  *)
LEMMA InitIInv == Init => IInv
<1> SUFFICES ASSUME Init PROVE IInv
  OBVIOUS
<1> USE DirectoryAssumption DEF Init
<1>1. /\ listed \in Seq(Companies)
      /\ \A i, j \in DOMAIN listed : listed[i] = listed[j] => i = j
  <2>1. Cardinality(Companies) \in Nat
    BY FS_CardinalityType
  <2>2. PICK n \in 0..Cardinality(Companies) : listed \in [1..n -> Companies]
    BY DEF SeqOf
  <2>3. listed \in Seq(Companies)
    BY <2>1, <2>2, IsASeq
  <2> QED BY <2>3 DEF IsInjective
<1>2. /\ ToSet(listed) \subseteq Companies
      /\ \A i \in DOMAIN listed : listed[i] \in ToSet(listed)
      /\ \A x \in ToSet(listed) : \E i \in DOMAIN listed : listed[i] = x
  BY <1>1, LenProperties, ElementOfSeq DEF ToSet
<1>3. TypeOK
  BY <1>1, <1>2, EmptySeq DEF TypeOK, Facts, Locks, NoRun, Run, NoRecord,
     Unpublished, Statuses, Kinds
<1>4. Provider
  <2>1. Closed(offered)
    BY <1>2 DEF Closed
  <2> QED BY <1>1, <1>2, <2>1 DEF Provider
<1>5. Versions /\ DirectoryIsOneView
  BY DEF Versions, NoRun, DirectoryIsOneView, Closed
<1>6. ASSUME NEW e \in Executions
      PROVE  Stands(e) /\ Writes(e) /\ Judged(e) /\ Acquires(e)
  BY DEF Stands, Writes, Judged, Acquires, NoRun, Unpublished, Unfinished
<1>7. RecordIsTruthful
  BY DEF RecordIsTruthful, NoRun, NoRecord, Unpublished
<1> QED BY <1>3, <1>4, <1>5, <1>6, <1>7 DEF IInv

(* A change at a provider needs only what it makes of the provider's list. *)
LEMMA ChangeKeeps ==
    ASSUME IInv, NEW facts \in SUBSET Facts, NEW list \in Seq(Companies),
           Change(facts, list), Provider'
    PROVE  IInv'
<1> USE DEF Change
<1>1. changes \in Nat /\ changes' \in 0..MaxChanges /\ changes <= changes'
  BY DirectoryAssumption DEF IInv, TypeOK
<1>2. TypeOK'
  BY <1>1 DEF IInv, TypeOK
<1>3. Versions'
  BY <1>1 DEF IInv, TypeOK, Versions, Run
<1>4. ASSUME NEW e \in Executions
      PROVE  Stands(e)' /\ Writes(e)' /\ Judged(e)' /\ Acquires(e)'
  BY DEF IInv, Stands, Writes, Judged, Outcome, AlreadySucceeded, Acquires, Closed
<1>5. DirectoryIsOneView' /\ RecordIsTruthful'
  BY DEF IInv, DirectoryIsOneView, RecordIsTruthful, Closed
<1> QED BY <1>2, <1>3, <1>4, <1>5 DEF IInv

(* Facts that are no company's own leave the list of companies alone.      *)
LEMMA OtherFactsFit ==
    ASSUME IInv, NEW facts \in SUBSET Facts, offered' = facts, listed' = listed,
           facts \cap Companies = offered \cap Companies, Closed(facts)
    PROVE  Provider'
  BY ElementOfSeq, LenProperties DEF IInv, TypeOK, Provider, Closed

(* A new company is listed once, last.                                     *)
LEMMA ListCompanyKeeps ==
    ASSUME IInv, NEW x \in Companies, ListCompany(x)
    PROVE  IInv'
<1>1. PICK related \in SUBSET {f \in RelationsOf(x) : f[2] \in offered} :
          Change(offered \cup {x} \cup related, Append(listed, x))
  BY DEF ListCompany
<1> DEFINE facts == offered \cup {x} \cup related
           list == Append(listed, x)
<1>2. /\ listed \in Seq(Companies) /\ offered \subseteq Facts /\ x \notin offered
      /\ Len(listed) \in Nat /\ DOMAIN listed = 1..Len(listed)
  BY LenProperties DEF IInv, TypeOK, ListCompany
<1>3. /\ list \in Seq(Companies) /\ DOMAIN list = 1..(Len(listed) + 1)
      /\ \A i \in 1..Len(listed) : list[i] = listed[i]
      /\ list[Len(listed) + 1] = x
  BY <1>2, AppendProperties, LenProperties
<1>4. facts \in SUBSET Facts
  BY <1>2 DEF Facts, RelationsOf
<1>5. related \cap Companies = {} /\ x \notin Companies \X Targets
  BY DirectoryAssumption DEF RelationsOf
<1>6. Closed(facts)
  BY <1>5 DEF IInv, Provider, Closed, RelationsOf
<1>7. Provider'
  <2>1. offered' = facts /\ listed' = list
    BY <1>1 DEF Change
  <2> HIDE DEF facts, list
  <2>2. \A i, j \in DOMAIN list : list[i] = list[j] => i = j
    BY <1>2, <1>3 DEF IInv, Provider
  <2>3. \A i \in DOMAIN list : list[i] \in facts
    BY <1>2, <1>3 DEF IInv, Provider, facts
  <2>4. \A y \in Companies \cap facts : \E i \in DOMAIN list : list[i] = y
    BY <1>2, <1>3, <1>5 DEF IInv, Provider, facts
  <2> QED BY <2>1, <2>2, <2>3, <2>4, <1>6 DEF Provider, Closed
<1> QED BY <1>1, <1>3, <1>4, <1>7, ChangeKeeps

(* A company that goes takes its relations along.                          *)
LEMMA UnlistCompanyKeeps ==
    ASSUME IInv, NEW x \in Companies, UnlistCompany(x)
    PROVE  IInv'
<1>1. PICK i \in DOMAIN listed :
          /\ listed[i] = x
          /\ Change(offered \ ({x} \cup RelationsOf(x)), RemoveAt(listed, i))
  BY DEF UnlistCompany
<1> DEFINE facts == offered \ ({x} \cup RelationsOf(x))
           list == RemoveAt(listed, i)
<1>2. listed \in Seq(Companies) /\ facts \in SUBSET Facts
  BY DEF IInv, TypeOK
<1>3. /\ list \in Seq(Companies)
      /\ \A j, k \in DOMAIN list : list[j] = list[k] => j = k
      /\ \A j \in DOMAIN list : list[j] # x /\ \E k \in DOMAIN listed : list[j] = listed[k]
      /\ \A k \in DOMAIN listed \ {i} : \E j \in DOMAIN list : list[j] = listed[k]
  BY <1>1, <1>2, RemovedFromList DEF IInv, Provider
<1>4. /\ \A f \in Companies \X Targets : f \notin Companies /\ f \notin Targets
      /\ \A f \in Companies \X Targets : f[1] \in Companies /\ f[2] \in Targets
      /\ x \notin Targets
  BY DirectoryAssumption
<1>5. Closed(facts)
  <2> SUFFICES ASSUME NEW f \in facts \cap (Companies \X Targets)
               PROVE  f[1] \in facts /\ f[2] \in facts
    BY DEF Closed
  <2>1. f[1] \in offered /\ f[2] \in offered /\ f[1] # x
    BY DEF IInv, Provider, Closed, RelationsOf
  <2> QED BY <2>1, <1>4 DEF RelationsOf
<1>6. Provider'
  <2>1. offered' = facts /\ listed' = list
    BY <1>1 DEF Change
  <2> HIDE DEF list
  <2>2. \A j \in DOMAIN list : list[j] \in facts
    BY <1>2, <1>3, <1>4, ElementOfSeq, LenProperties DEF IInv, Provider, RelationsOf
  <2>3. \A y \in Companies \cap facts : \E j \in DOMAIN list : list[j] = y
    BY <1>1, <1>3 DEF IInv, Provider
  <2> QED BY <2>1, <2>2, <2>3, <1>3, <1>5 DEF Provider, Closed
<1> QED BY <1>1, <1>2, <1>3, <1>6, ChangeKeeps

(* Departments come and go, and the contacts change.                       *)
LEMMA TargetsKeep ==
    ASSUME IInv,
           \/ \E t \in Targets : OfferTarget(t) \/ WithdrawTarget(t)
           \/ ChangeContacts
    PROVE  IInv'
<1>1. listed \in Seq(Companies) /\ offered \subseteq Facts /\ Closed(offered)
  BY DEF IInv, TypeOK, Provider
<1>2. ASSUME NEW t \in Targets, OfferTarget(t) PROVE IInv'
  <2> DEFINE facts == offered \cup {t}
  <2>1. /\ facts \in SUBSET Facts /\ Closed(facts)
        /\ facts \cap Companies = offered \cap Companies
    BY <1>1, DirectoryAssumption DEF Facts, Closed
  <2>2. Change(facts, listed)
    BY <1>2 DEF OfferTarget
  <2> QED BY <1>1, <2>1, <2>2, OtherFactsFit, ChangeKeeps DEF Change
<1>3. ASSUME NEW t \in Targets, WithdrawTarget(t) PROVE IInv'
  <2> DEFINE facts == {f \in offered \ {t} : f \in Companies \X Targets => f[2] # t}
  <2>1. /\ facts \in SUBSET Facts /\ Closed(facts)
        /\ facts \cap Companies = offered \cap Companies
    BY <1>1, DirectoryAssumption DEF Facts, Closed
  <2>2. Change(facts, listed)
    BY <1>3 DEF WithdrawTarget
  <2> QED BY <1>1, <2>1, <2>2, OtherFactsFit, ChangeKeeps DEF Change
<1>4. ASSUME ChangeContacts PROVE IInv'
  <2>1. Change(offered, listed)
    BY <1>4 DEF ChangeContacts
  <2> QED BY <1>1, <2>1, OtherFactsFit, ChangeKeeps DEF Change
<1> QED BY <1>2, <1>3, <1>4
-----------------------------------------------------------------------------
(* What a step of e leaves of the others.                                  *)
Spares(e) ==
    /\ UNCHANGED provider
    /\ contacts <= contacts'
    /\ \A d \in Executions \ {e} :
          /\ run'[d] = run[d] /\ record'[d] = record[d]
          /\ published'[d] = published[d] /\ asked'[d] = asked[d]
          /\ run[d].step = "write" =>
                held'["acessorias"] = d /\ present' = present

(* The row of e says what e did.                                           *)
Truthful(e) ==
    /\ record[e].status \in {"succeeded", "deduplicated", "matching_failed"}
          => published[e].done /\ published[e].facts = record[e].snapshot
    /\ (\/ record[e].status \in {"started", "dry_run"}
        \/ record[e].status = "failed" /\ run[e].kind # "apply")
          => ~published[e].done
    /\ published[e].done /\ run[e].kind = "apply" => contacts >= run[e].version

(* While another transaction writes, no refresh becomes a success, or      *)
(* ceases to be one.                                                       *)
Succeeded(e) == run[e].kind = "refresh" /\ record[e].status = "succeeded"

Undisturbed(e) ==
    (\E d \in Executions \ {e} : run[d].step = "write") =>
        /\ Succeeded(e)' <=> Succeeded(e)
        /\ Succeeded(e) => record'[e].snapshot = record[e].snapshot

(* So a step of one execution is only looked at where it works.            *)
LEMMA StepKeeps ==
    ASSUME IInv, NEW e \in Executions, Spares(e), TypeOK', Versions',
           Stands(e)', Writes(e)', Judged(e)', Acquires(e)', Truthful(e)',
           Undisturbed(e),
           DirectoryIsOneView'
    PROVE  IInv'
<1>1. Provider'
  BY DEF IInv, Provider, Spares, provider, Closed
<1>2. ASSUME NEW d \in Executions
      PROVE  Stands(d)' /\ Writes(d)' /\ Judged(d)' /\ Acquires(d)'
  <2>1. CASE d = e
    BY <2>1
  <2>2. CASE d # e
    <3>1. Stands(d)'
      BY <2>2 DEF IInv, Spares, Stands
    <3>2. Writes(d)'
      BY <2>2 DEF IInv, Spares, Writes, Closed
    <3>3. Acquires(d)'
      BY <2>2 DEF IInv, Spares, provider, Acquires
    <3>4. Judged(d)'
      <4> SUFFICES ASSUME run[d].step = "write", run[d].outcome # "none"
                   PROVE  Outcome(d)' = Outcome(d)
        BY <2>2 DEF IInv, Spares, Judged
      <4>1. \A x \in Executions : Succeeded(x)' <=> Succeeded(x)
        BY <2>2 DEF Spares, Undisturbed, Succeeded
      <4>2. \A x \in Executions :
                Succeeded(x) => record'[x].snapshot = record[x].snapshot
        BY <2>2 DEF Spares, Undisturbed
      <4>3. run'[d].facts = run[d].facts
        BY <2>2 DEF Spares
      <4>4. AlreadySucceeded(run[d].facts)' <=> AlreadySucceeded(run[d].facts)
        BY <4>1, <4>2, <4>3 DEF AlreadySucceeded, Succeeded
      <4> QED BY <4>4 DEF Outcome
    <3> QED BY <3>1, <3>2, <3>3, <3>4
  <2> QED BY <2>1, <2>2
<1>3. RecordIsTruthful'
  <2> SUFFICES ASSUME NEW d \in Executions PROVE Truthful(d)'
    BY DEF RecordIsTruthful, Truthful
  <2>1. CASE d # e
    <3>1. contacts \in Int /\ contacts' \in Int /\ run[d].version \in Int
      BY DEF IInv, TypeOK, Run
    <3> QED BY <2>1, <3>1 DEF IInv, Spares, RecordIsTruthful, Truthful
  <2> QED BY <2>1
<1> QED BY <1>1, <1>2, <1>3 DEF IInv

(* What is true of e now.                                                  *)
LEMMA Now ==
    ASSUME IInv, NEW e \in Executions
    PROVE  /\ TypeOK /\ Versions /\ Provider /\ DirectoryIsOneView
           /\ Stands(e) /\ Writes(e) /\ Judged(e) /\ Acquires(e) /\ Truthful(e)
           /\ run[e] \in Run /\ record[e] \in [status : Statuses, snapshot : SUBSET Facts]
           /\ contacts \in Nat /\ changes \in Nat
  BY DirectoryAssumption DEF IInv, TypeOK, RecordIsTruthful, Truthful

(* A step changes one field of a process.                                  *)
LEMMA StepFits ==
    ASSUME NEW r \in Run,
           NEW step \in {"companies", "publish", "write", "report", "match",
                         "matched", "ended", "dead"}
    PROVE  LET s == [r EXCEPT !.step = step]
           IN  /\ s \in Run /\ s.step = step
               /\ s.kind = r.kind /\ s.facts = r.facts /\ s.read = r.read
               /\ s.version = r.version /\ s.seen = r.seen /\ s.outcome = r.outcome
  BY DEF Run

(* The process of one execution moves, the others stay.                    *)
LEMMA RunMoves ==
    ASSUME IInv, NEW e \in Executions, NEW r \in Run, run' = [run EXCEPT ![e] = r]
    PROVE  /\ run' \in [Executions -> Run] /\ run'[e] = r
           /\ \A d \in Executions \ {e} : run'[d] = run[d]
  BY DEF IInv, TypeOK

(* So does its row.                                                        *)
LEMMA RecordMoves ==
    ASSUME IInv, NEW e \in Executions,
           NEW r \in [status : Statuses, snapshot : SUBSET Facts],
           record' = [record EXCEPT ![e] = r]
    PROVE  /\ record' \in [Executions -> [status : Statuses, snapshot : SUBSET Facts]]
           /\ record'[e] = r
           /\ \A d \in Executions \ {e} : record'[d] = record[d]
  BY DEF IInv, TypeOK

(* Who writes has the lock of the directory.                               *)
LEMMA Locked ==
    ASSUME IInv
    PROVE  \A d \in Executions :
              run[d].step = "write" => held["acessorias"] = d /\ run[d].seen = present
  BY DEF IInv, Writes

(* An execution begins from nothing.                                       *)
LEMMA StartKeeps ==
    ASSUME IInv, NEW e \in Executions, NEW kind \in Kinds, Start(e, kind)
    PROVE  IInv'
<1> USE DEF Start
<1>1. /\ run'[e] = [NoRun EXCEPT !.kind = kind, !.step = "departments"]
      /\ run'[e] \in Run
      /\ record'[e] = [record[e] EXCEPT !.status = "started"]
  BY Now, EmptySeq DEF TypeOK, NoRun, Run, Kinds
<1>2. TypeOK'
  BY Now, <1>1 DEF TypeOK, Statuses, provider
<1>3. Versions'
  BY Now, <1>1 DEF IInv, TypeOK, Versions, NoRun, provider
<1>4. Spares(e)
  BY Now, Locked DEF TypeOK, Spares
<1>5. /\ Stands(e)' /\ Writes(e)' /\ Judged(e)' /\ Truthful(e)'
      /\ Undisturbed(e)
  BY Now, <1>1 DEF TypeOK, Stands, Writes, Judged, Truthful, Undisturbed, Succeeded,
     NoRun, Kinds, Unfinished
<1>6. Acquires(e)'
  BY Now, <1>1 DEF TypeOK, Acquires, NoRun, provider
<1>7. DirectoryIsOneView'
  BY Now DEF DirectoryIsOneView, Closed
<1> QED BY <1>2, <1>3, <1>4, <1>5, <1>6, <1>7, StepKeeps

(* The first response is of now.                                           *)
LEMMA ReadDepartmentsKeeps ==
    ASSUME IInv, NEW e \in Executions, ReadDepartments(e)
    PROVE  IInv'
<1> DEFINE new == [run[e] EXCEPT !.step = "companies",
                       !.facts = offered \cap Targets, !.version = changes]
<1>1. run[e] \in Run /\ offered \cap Targets \in SUBSET Facts /\ changes \in Nat
  BY Now DEF Facts
<1>2. /\ new \in Run /\ new.step = "companies" /\ new.kind = run[e].kind
      /\ new.facts = offered \cap Targets /\ new.version = changes
      /\ new.read = run[e].read /\ new.outcome = run[e].outcome
  BY <1>1 DEF Run
<1>3. /\ run' = [run EXCEPT ![e] = new] /\ run[e].step = "departments"
      /\ UNCHANGED <<provider, present, contacts, held, record, published,
                     latest, asked>>
  BY DEF ReadDepartments
<1>4. UNCHANGED <<listed, offered, changes>>
  BY <1>3 DEF provider
<1> HIDE DEF new
<1>5. /\ run' \in [Executions -> Run] /\ run'[e] = new
      /\ \A d \in Executions \ {e} : run'[d] = run[d]
  BY <1>2, <1>3, RunMoves
<1>6. TypeOK'
  BY Now, <1>3, <1>4, <1>5 DEF TypeOK
<1>7. Versions'
  <2>1. contacts <= changes /\ \A d \in Executions : run[d].version <= changes
    BY DEF IInv, Versions
  <2> QED BY Now, <1>2, <1>3, <1>4, <1>5, <2>1 DEF Versions
<1>8. Spares(e)
  BY Now, Locked, <1>3, <1>5 DEF TypeOK, Spares
<1>9. Stands(e)' /\ Writes(e)' /\ Judged(e)'
  BY Now, <1>2, <1>3, <1>5 DEF Stands, Writes, Judged, NoRun, Unfinished
<1>10. Truthful(e)' /\ Undisturbed(e)
  <2>1. run'[e].kind = run[e].kind /\ ~published[e].done
    BY Now, <1>2, <1>3, <1>5 DEF Stands, Unfinished
  <2>2. record' = record /\ published' = published /\ contacts' = contacts
    BY <1>3
  <2>3. Truthful(e)'
    BY Now, <2>1, <2>2 DEF Truthful
  <2>4. Undisturbed(e)
    BY <2>1, <2>2 DEF Undisturbed, Succeeded
  <2> QED BY <2>3, <2>4
<1>11. Acquires(e)'
  <2>1. /\ asked[e] # {} => asked[e] = offered
        /\ run'[e].read = <<>> /\ run'[e].step = "companies"
        /\ run'[e].facts = offered \cap Targets
    BY Now, <1>2, <1>3, <1>5 DEF Acquires
  <2>2. Len(<<>>) = 0 /\ DOMAIN <<>> = {} /\ Len(listed) \in Nat
    BY Now, LenProperties DEF TypeOK
  <2>3. OnPages(offered, <<>>) = offered \cap Targets
    BY <2>2 DEF OnPages
  <2>4. Len(<<>>) <= Len(listed)
    BY <2>2
  <2> QED BY <1>3, <1>4, <2>1, <2>2, <2>3, <2>4 DEF Acquires
<1>12. DirectoryIsOneView'
  BY Now, <1>3 DEF DirectoryIsOneView, Closed
<1> QED BY <1>6, <1>7, <1>8, <1>9, <1>10, <1>11, <1>12, StepKeeps

(* A run may have read any companies and have any facts.                   *)
LEMMA ReadFits ==
    ASSUME NEW r \in Run, NEW read \in Seq(Companies), NEW facts \in SUBSET Facts
    PROVE  [r EXCEPT !.read = read, !.facts = facts] \in Run
  BY DEF Run

(* A page adds the provider's facts that it holds.                         *)
LEMMA ReadCompanyKeeps ==
    ASSUME IInv, NEW e \in Executions, ReadCompany(e)
    PROVE  IInv'
<1> USE DEF ReadCompany
<1> DEFINE x == listed[Page(e)]
           n == Len(run[e].read)
<1>1. /\ listed \in Seq(Companies) /\ run[e].read \in Seq(Companies)
      /\ n \in Nat /\ Len(listed) \in Nat /\ Page(e) = n + 1 /\ n + 1 <= Len(listed)
      /\ DOMAIN run[e].read = 1..n /\ DOMAIN listed = 1..Len(listed)
      /\ x \in Companies
  BY Now, LenProperties, ElementOfSeq DEF TypeOK, Run, Page
<1>2. /\ Append(run[e].read, x) \in Seq(Companies)
      /\ DOMAIN Append(run[e].read, x) = 1..(n + 1)
      /\ Len(Append(run[e].read, x)) = n + 1
      /\ \A i \in 1..n : Append(run[e].read, x)[i] = run[e].read[i]
      /\ Append(run[e].read, x)[n + 1] = x
  BY <1>1, AppendProperties, LenProperties
<1> DEFINE longer == Append(run[e].read, x)
<1>3. /\ run' = [run EXCEPT ![e] = run'[e]]
      /\ run[e].step = "companies" /\ run'[e].step = "companies"
      /\ run'[e].kind = run[e].kind /\ run'[e].version = run[e].version
      /\ run'[e].seen = run[e].seen /\ run'[e].read = longer
      /\ run'[e].outcome = run[e].outcome
      /\ run'[e].facts = run[e].facts \cup {x} \cup (offered \cap RelationsOf(x))
  BY Now DEF TypeOK, Run
<1>4. run'[e] \in Run
  <2>1. run'[e] = [run[e] EXCEPT !.read = longer, !.facts = run'[e].facts]
    BY Now, <1>3 DEF TypeOK, Run
  <2>2. run'[e].facts \in SUBSET Facts
    BY Now, <1>1, <1>3 DEF TypeOK, Run, Facts
  <2>3. longer \in Seq(Companies) /\ run[e] \in Run
    BY Now, <1>2
  <2> HIDE DEF longer, ReadCompany
  <2>4. [run[e] EXCEPT !.read = longer, !.facts = run'[e].facts] \in Run
    BY <2>2, <2>3, ReadFits
  <2> QED BY <2>1, <2>4
<1>5. /\ UNCHANGED <<listed, offered, changes, present, contacts, held, record>>
      /\ UNCHANGED <<published, latest, asked>>
  BY DEF provider
<1>6. Len(longer) = n + 1 /\ DOMAIN longer = 1..(n + 1)
  BY <1>2
<1> HIDE DEF x, n, longer, ReadCompany
<1>7. /\ run' \in [Executions -> Run]
      /\ \A d \in Executions \ {e} : run'[d] = run[d]
  BY <1>3, <1>4, RunMoves
<1>8. TypeOK'
  BY Now, <1>5, <1>7 DEF TypeOK
<1>9. Versions'
  <2>1. contacts <= changes /\ \A d \in Executions : run[d].version <= changes
    BY DEF IInv, Versions
  <2> QED BY Now, <1>3, <1>5, <1>7, <2>1 DEF Versions
<1>10. Spares(e)
  BY Now, Locked, <1>3, <1>5, <1>7 DEF TypeOK, Spares, provider
<1>11. Stands(e)' /\ Writes(e)' /\ Judged(e)' /\ Truthful(e)' /\ Undisturbed(e)
  <2>1. Stands(e)' /\ Writes(e)' /\ Judged(e)'
    BY Now, <1>3, <1>5 DEF Stands, Writes, Judged, NoRun, Unfinished
  <2>2. Truthful(e)' /\ Undisturbed(e)
    BY Now, <1>3, <1>5 DEF Truthful, Undisturbed, Succeeded
  <2> QED BY <2>1, <2>2
<1>12. Acquires(e)'
  <2> SUFFICES ASSUME asked[e] # {}
               PROVE  /\ n + 1 <= Len(listed)
                      /\ \A i \in 1..(n + 1) : longer[i] = listed[i]
                      /\ run'[e].facts = OnPages(offered, longer)
    <3>1. asked[e] # {} => asked[e] = offered
      BY Now DEF Acquires
    <3> QED BY <1>3, <1>5, <1>6, <3>1 DEF Acquires
  <2>1. /\ \A i \in 1..n : run[e].read[i] = listed[i]
        /\ run[e].facts = OnPages(offered, run[e].read)
    BY Now, <1>1, <1>3 DEF Acquires
  <2>2. x = listed[n + 1] /\ x \in offered
    BY Now, <1>1 DEF Provider, x
  <2>3. \A i \in 1..(n + 1) : longer[i] = listed[i]
    BY <1>1, <1>2, <2>1, <2>2 DEF longer
  <2>4. OnPages(offered, longer)
          = OnPages(offered, run[e].read) \cup {x} \cup (offered \cap RelationsOf(x))
    <3>1. \A f : (\E i \in DOMAIN longer : f = longer[i] \/ f \in RelationsOf(longer[i]))
                  <=> \/ \E i \in DOMAIN run[e].read :
                            f = run[e].read[i] \/ f \in RelationsOf(run[e].read[i])
                      \/ f = x \/ f \in RelationsOf(x)
      <4> HIDE DEF RelationsOf
      <4> TAKE f
      <4>1. n + 1 \in 1..(n + 1) /\ 1..n \subseteq 1..(n + 1)
        BY <1>1
      <4>2. \A i \in 1..(n + 1) : i \in 1..n \/ i = n + 1
        BY <1>1
      <4> QED BY <1>1, <1>2, <4>1, <4>2 DEF longer
    <3> QED BY <3>1, <2>2 DEF OnPages
  <2> QED BY <1>1, <1>3, <2>1, <2>3, <2>4
<1>13. DirectoryIsOneView'
  BY Now, <1>5 DEF DirectoryIsOneView, Closed
<1> QED BY <1>8, <1>9, <1>10, <1>11, <1>12, <1>13, StepKeeps

(* A list read to its end holds all that the provider has.                 *)
LEMMA EndAcquisitionKeeps ==
    ASSUME IInv, NEW e \in Executions, EndAcquisition(e)
    PROVE  IInv'
<1> USE DEF EndAcquisition
<1>1. /\ run'[e] = [run[e] EXCEPT !.step = "publish"] /\ run'[e] \in Run
  BY Now DEF TypeOK, Run
<1>2. TypeOK'
  BY Now, <1>1 DEF TypeOK, provider
<1>3. Versions'
  BY Now, <1>1 DEF IInv, TypeOK, Versions, Run, provider
<1>4. Spares(e)
  BY Now, Locked DEF TypeOK, Spares
<1>5. /\ Stands(e)' /\ Writes(e)' /\ Judged(e)' /\ Truthful(e)'
      /\ Undisturbed(e)
  BY Now, <1>1 DEF TypeOK, Stands, Writes, Judged, Truthful, Undisturbed, Succeeded, NoRun, Run,
     Unfinished, Complete, Closed
<1>6. Acquires(e)'
  <2> SUFFICES ASSUME asked[e] # {} PROVE run[e].facts = offered
    BY Now, <1>1 DEF Acquires, Run, provider
  <2>1. /\ listed \in Seq(Companies) /\ run[e].read \in Seq(Companies)
        /\ offered \subseteq Facts
    BY Now DEF TypeOK, Run
  <2>2. /\ Len(run[e].read) <= Len(listed)
        /\ \A i \in DOMAIN run[e].read : run[e].read[i] = listed[i]
        /\ run[e].facts = OnPages(offered, run[e].read)
    BY Now DEF Acquires
  <2>3. DOMAIN run[e].read = DOMAIN listed
    BY <2>1, <2>2, LenProperties DEF Complete, Page
  <2>4. \A f \in offered : f \in OnPages(offered, run[e].read)
    <3> SUFFICES ASSUME NEW f \in offered, f \notin Targets
                 PROVE  \E i \in DOMAIN listed : f = listed[i] \/ f \in RelationsOf(listed[i])
      BY <2>2, <2>3 DEF OnPages
    <3>1. CASE f \in Companies
      BY Now, <3>1 DEF Provider
    <3>2. CASE f \in Companies \X Targets
      <4>1. f[1] \in Companies \cap offered
        BY Now, <3>2 DEF Provider, Closed
      <4>2. PICK i \in DOMAIN listed : listed[i] = f[1]
        BY Now, <4>1 DEF Provider
      <4> QED BY <3>2, <4>2 DEF RelationsOf
    <3> QED BY <2>1, <3>1, <3>2 DEF Facts
  <2> QED BY <2>2, <2>4 DEF OnPages
<1>7. DirectoryIsOneView'
  BY Now DEF DirectoryIsOneView, Closed
<1> QED BY <1>2, <1>3, <1>4, <1>5, <1>6, <1>7, StepKeeps
-----------------------------------------------------------------------------
(* Locks of e that go leave the others' theirs.                            *)
LEMMA ReleasedFits ==
    ASSUME IInv, NEW e \in Executions
    PROVE  /\ Released(e) \in [Locks -> Executions \cup {Backfill, None}]
           /\ \A d \in Executions \ {e} :
                held["acessorias"] = d => Released(e)["acessorias"] = d
  BY Now DEF TypeOK, Released, Locks

(* The lock is asked for when nobody has it.                               *)
LEMMA LockKeeps ==
    ASSUME IInv, NEW e \in Executions, Lock(e)
    PROVE  IInv'
<1> USE DEF Lock
<1>1. /\ run'[e] = [run[e] EXCEPT !.step = "write", !.seen = present]
      /\ run'[e] \in Run
  BY Now DEF TypeOK, Run
<1>2. /\ held["acessorias"] = None /\ held'["acessorias"] = e
      /\ held' \in [Locks -> Executions \cup {Backfill, None}]
  BY Now DEF TypeOK, Granted, LocksOf, Locks
<1>3. TypeOK'
  BY Now, <1>1, <1>2 DEF TypeOK, provider
<1>4. Versions'
  BY Now, <1>1 DEF IInv, TypeOK, Versions, Run, provider
<1>5. Spares(e)
  BY Now, Locked, <1>2, DirectoryAssumption DEF TypeOK, Spares
<1>6. /\ run'[e].step = "write" /\ run'[e].kind = run[e].kind
      /\ run'[e].facts = run[e].facts /\ run'[e].seen = present
      /\ run'[e].version = run[e].version /\ run[e].step = "publish"
      /\ run'[e].outcome = run[e].outcome
  BY Now, <1>1 DEF TypeOK, Run
<1>7. Stands(e)' /\ Judged(e)' /\ Truthful(e)' /\ Undisturbed(e)
  BY Now, <1>6 DEF Stands, Judged, Truthful, Undisturbed, Succeeded, Unfinished
<1>8. Writes(e)'
  BY Now, <1>2, <1>6 DEF Writes, Closed
<1>9. Acquires(e)'
  BY Now, <1>1 DEF TypeOK, Acquires, Run, provider
<1>10. DirectoryIsOneView'
  BY Now DEF DirectoryIsOneView, Closed
<1> QED BY <1>3, <1>4, <1>5, <1>7, <1>8, <1>9, <1>10, StepKeeps

(* What is published is the view, whole and alone.                         *)
LEMMA PublishFits ==
    ASSUME IInv, NEW e \in Executions, run[e].step = "write", Publish(e)
    PROVE  /\ present' = run[e].facts /\ latest' = run[e].facts
           /\ Closed(run[e].facts) /\ run[e].facts \in SUBSET Facts
           /\ published'[e] = [facts |-> run[e].facts, done |-> TRUE]
           /\ published' \in [Executions -> [facts : SUBSET Facts, done : BOOLEAN]]
           /\ held' \in [Locks -> Executions \cup {Backfill, None}]
           /\ \A d \in Executions \ {e} :
                published'[d] = published[d] /\ run[d].step # "write"
           /\ record[e].status = "started"
<1>1. run[e].facts \in SUBSET Facts /\ run[e].seen = present /\ Closed(run[e].facts)
  BY Now DEF Run, Writes
<1>2. \A d \in Executions \ {e} : run[d].step # "write"
  BY Locked
<1>3. published'[e] = [facts |-> run[e].facts, done |-> TRUE]
  BY Now DEF TypeOK, Publish
<1>4. published' \in [Executions -> [facts : SUBSET Facts, done : BOOLEAN]]
  BY Now, <1>1 DEF TypeOK, Publish
<1> QED BY Now, <1>1, <1>2, <1>3, <1>4, ReleasedFits
        DEF TypeOK, Publish, Merged, Stands, Unfinished

(* The tables it leaves are typed.                                         *)
LEMMA PublishTyped ==
    ASSUME IInv, NEW e \in Executions, run[e].step = "write", Publish(e)
    PROVE  /\ present' \in SUBSET Facts /\ latest' \in SUBSET Facts
           /\ published' \in [Executions -> [facts : SUBSET Facts, done : BOOLEAN]]
           /\ held' \in [Locks -> Executions \cup {Backfill, None}]
  BY PublishFits

(* Nobody else's lock goes with it.                                        *)
LEMMA PublishSpares ==
    ASSUME IInv, NEW e \in Executions, Publish(e)
    PROVE  \A d \in Executions \ {e} :
              held["acessorias"] = d => held'["acessorias"] = d
  BY ReleasedFits DEF Publish

(* What a refresh concludes holds when it concludes it.                    *)
LEMMA JudgeKeeps ==
    ASSUME IInv, NEW e \in Executions, Judge(e)
    PROVE  IInv'
<1> DEFINE new == [run[e] EXCEPT !.outcome = Outcome(e)]
<1>1. /\ run[e].step = "write" /\ run[e].kind = "refresh"
      /\ run' = [run EXCEPT ![e] = new]
      /\ UNCHANGED <<listed, offered, changes, present, contacts, held, record>>
      /\ UNCHANGED <<published, latest, asked>>
  BY DEF Judge, provider
<1>2. /\ new \in Run /\ new.outcome = Outcome(e)
      /\ new.step = run[e].step /\ new.kind = run[e].kind
      /\ new.facts = run[e].facts /\ new.read = run[e].read
      /\ new.version = run[e].version /\ new.seen = run[e].seen
  <2>1. run[e] \in Run /\ Outcome(e) \in {"succeeded", "deduplicated"}
    BY Now DEF Outcome
  <2> QED BY <2>1 DEF Run
<1> HIDE DEF new
<1>3. /\ run' \in [Executions -> Run] /\ run'[e] = new
      /\ \A d \in Executions \ {e} : run'[d] = run[d]
  BY <1>1, <1>2, RunMoves
<1>4. TypeOK'
  BY Now, <1>1, <1>3 DEF TypeOK
<1>5. Versions'
  BY <1>1, <1>2, <1>3 DEF IInv, Versions
<1>6. Spares(e)
  BY Now, Locked, <1>1, <1>3 DEF Spares, provider
<1>7. Stands(e)' /\ Writes(e)' /\ Truthful(e)' /\ Undisturbed(e)
  BY Now, <1>1, <1>2, <1>3
     DEF Stands, Writes, Truthful, Undisturbed, Succeeded, NoRun, Unfinished
<1>8. Judged(e)'
  <2>1. run'[e].outcome = Outcome(e) /\ run'[e].facts = run[e].facts
    BY <1>2, <1>3
  <2>2. AlreadySucceeded(run[e].facts)' <=> AlreadySucceeded(run[e].facts)
    <3>1. \A d \in Executions : run'[d].kind = run[d].kind
      BY <1>2, <1>3
    <3> QED BY <1>1, <2>1, <3>1 DEF AlreadySucceeded
  <2>3. Outcome(e)' = Outcome(e)
    BY <2>2 DEF Outcome
  <2> QED BY <2>1, <2>3 DEF Judged
<1>9. Acquires(e)'
  BY Now, <1>1, <1>2, <1>3 DEF Acquires
<1>10. DirectoryIsOneView'
  BY Now, <1>1 DEF DirectoryIsOneView, Closed
<1> QED BY <1>4, <1>5, <1>6, <1>7, <1>8, <1>9, <1>10, StepKeeps

(* A refresh publishes alone.                                              *)
LEMMA PublishRefreshKeeps ==
    ASSUME IInv, NEW e \in Executions, PublishRefresh(e)
    PROVE  IInv'
<1> DEFINE new == [run[e] EXCEPT !.step = "ended"]
           row == [status |-> run[e].outcome, snapshot |-> run[e].facts]
<1>1. /\ run[e].step = "write" /\ run[e].kind = "refresh" /\ Publish(e)
      /\ run' = [run EXCEPT ![e] = new] /\ record' = [record EXCEPT ![e] = row]
      /\ UNCHANGED <<listed, offered, changes, contacts, asked>>
      /\ run[e].outcome \in {"succeeded", "deduplicated"}
  BY Now DEF PublishRefresh, provider, Run
<1>2. /\ run' \in [Executions -> Run]
      /\ record' \in [Executions -> [status : Statuses, snapshot : SUBSET Facts]]
      /\ \A d \in Executions \ {e} : run'[d] = run[d] /\ record'[d] = record[d]
      /\ run'[e].step = "ended" /\ run'[e].kind = "refresh"
      /\ run'[e].version = run[e].version /\ run'[e].read = run[e].read
      /\ record'[e] = [status |-> run[e].outcome, snapshot |-> run[e].facts]
      /\ contacts \in Nat
  <2>1. /\ new \in Run /\ new.step = "ended" /\ new.kind = run[e].kind
        /\ new.version = run[e].version /\ new.read = run[e].read
    BY Now, StepFits
  <2>2. row \in [status : Statuses, snapshot : SUBSET Facts]
    <3>1. run[e].facts \in SUBSET Facts
      BY Now DEF Run
    <3> QED BY <1>1, <3>1 DEF Statuses
  <2> HIDE DEF new, row
  <2>3. run'[e] = new /\ record'[e] = row
    BY <1>1, <2>1, <2>2, RunMoves, RecordMoves
  <2>4. record'[e] = [status |-> run[e].outcome, snapshot |-> run[e].facts]
    BY <2>3 DEF row
  <2> QED BY Now, <1>1, <2>1, <2>2, <2>3, <2>4, RunMoves, RecordMoves
<1> HIDE DEF new, row
<1>3. TypeOK'
  BY Now, <1>2, <1>1, PublishTyped DEF TypeOK
<1>4. Versions'
  BY <1>2, <1>1 DEF IInv, Versions
<1>5. run[e].step = "write" /\ Publish(e)
  BY <1>1
<1>6. /\ published'[e] = [facts |-> run[e].facts, done |-> TRUE]
      /\ \A d \in Executions \ {e} :
            published'[d] = published[d] /\ run[d].step # "write"
  BY <1>5, PublishFits
<1>7. /\ record'[e].status \in {"succeeded", "deduplicated"}
      /\ published'[e].done /\ published'[e].facts = record'[e].snapshot
      /\ asked' = asked /\ provider' = provider /\ contacts' = contacts
      /\ \A d \in Executions \ {e} :
            published'[d] = published[d] /\ run[d].step # "write"
  BY <1>1, <1>2, <1>6 DEF provider
<1>8. Spares(e)
  BY <1>2, <1>7 DEF Spares
<1>9. Stands(e)' /\ Writes(e)' /\ Judged(e)' /\ Truthful(e)'
  BY <1>2, <1>7 DEF Stands, Writes, Judged, Truthful, Unfinished
<1>10. Undisturbed(e)
  BY <1>7 DEF Undisturbed
<1>11. Acquires(e)'
  <2>1. asked[e] # {} => asked[e] = offered
    BY Now DEF Acquires
  <2> QED BY <1>1, <1>2, <2>1 DEF Acquires
<1>12. DirectoryIsOneView'
  BY <1>1, PublishFits DEF DirectoryIsOneView, Closed
<1> QED BY <1>3, <1>4, <1>8, <1>9, <1>10, <1>11, <1>12, StepKeeps

(* The newer of two versions.                                              *)
LEMMA NewestFits ==
    ASSUME IInv, NEW e \in Executions
    PROVE  /\ Newest(e) \in {contacts, run[e].version}
           /\ Newest(e) >= contacts /\ Newest(e) >= run[e].version
<1>1. contacts \in Nat /\ run[e].version \in Nat
  BY Now DEF Run
<1>2. \E m \in {contacts, run[e].version} :
          \A n \in {contacts, run[e].version} : m >= n
  <2>1. CASE contacts >= run[e].version
    BY <1>1, <2>1
  <2>2. CASE run[e].version >= contacts
    BY <1>1, <2>2
  <2> QED BY <1>1, <2>1, <2>2
<1> QED BY <1>2 DEF Newest, Max

(* A reconciliation publishes its two sources at once.                     *)
LEMMA PublishBothKeeps ==
    ASSUME IInv, NEW e \in Executions, PublishBoth(e)
    PROVE  IInv'
<1> DEFINE new == [run[e] EXCEPT !.step = "match"]
           row == [status |-> "succeeded", snapshot |-> run[e].facts]
<1>1. /\ run[e].step = "write" /\ run[e].kind = "apply" /\ Publish(e)
      /\ run' = [run EXCEPT ![e] = new] /\ record' = [record EXCEPT ![e] = row]
      /\ contacts' = Newest(e)
      /\ UNCHANGED <<listed, offered, changes, asked>>
  BY DEF PublishBoth, provider
<1>2. /\ run' \in [Executions -> Run]
      /\ record' \in [Executions -> [status : Statuses, snapshot : SUBSET Facts]]
      /\ \A d \in Executions \ {e} : run'[d] = run[d] /\ record'[d] = record[d]
      /\ run'[e].step = "match" /\ run'[e].kind = "apply"
      /\ run'[e].version = run[e].version /\ run'[e].read = run[e].read
      /\ contacts' = Newest(e)
      /\ record'[e] = [status |-> "succeeded", snapshot |-> run[e].facts]
  <2>1. /\ new \in Run /\ new.step = "match" /\ new.kind = run[e].kind
        /\ new.version = run[e].version /\ new.read = run[e].read
    BY Now, StepFits
  <2>2. row \in [status : Statuses, snapshot : SUBSET Facts]
    <3>1. run[e].facts \in SUBSET Facts
      BY Now DEF Run
    <3> QED BY <3>1 DEF Statuses
  <2> HIDE DEF new, row
  <2>3. run'[e] = new /\ record'[e] = row
    BY <1>1, <2>1, <2>2, RunMoves, RecordMoves
  <2>4. record'[e] = [status |-> "succeeded", snapshot |-> run[e].facts]
    BY <2>3 DEF row
  <2> QED BY <1>1, <2>1, <2>2, <2>3, <2>4, RunMoves, RecordMoves
<1> HIDE DEF new, row
<1>3. /\ contacts' \in 0..MaxChanges /\ contacts' <= changes
      /\ contacts' >= contacts /\ contacts' >= run[e].version
  <2>1. /\ contacts \in 0..MaxChanges /\ changes \in 0..MaxChanges
        /\ run[e].version \in Nat /\ contacts <= changes /\ run[e].version <= changes
    BY Now DEF TypeOK, Versions, Run
  <2> QED BY <2>1, <1>2, NewestFits, DirectoryAssumption
<1>4. TypeOK'
  BY Now, <1>2, <1>1, <1>3, PublishTyped DEF TypeOK
<1>5. Versions'
  BY <1>2, <1>1, <1>3 DEF IInv, Versions
<1>6. Spares(e)
  <2>1. \A d \in Executions \ {e} :
            held["acessorias"] = d => held'["acessorias"] = d
    BY <1>1, PublishSpares
  <2> QED BY Now, <1>1, <1>2, <1>3, <2>1, PublishFits DEF Spares, provider
<1>7. run[e].step = "write" /\ Publish(e)
  BY <1>1
<1>8. /\ published'[e] = [facts |-> run[e].facts, done |-> TRUE]
      /\ \A d \in Executions \ {e} : run[d].step # "write"
  BY <1>7, PublishFits
<1>9. /\ record'[e].status = "succeeded" /\ contacts' >= run'[e].version
      /\ published'[e].done /\ published'[e].facts = record'[e].snapshot
  BY <1>2, <1>1, <1>3, <1>8
<1>10. /\ Stands(e)' /\ Writes(e)' /\ Judged(e)' /\ Truthful(e)'
       /\ Undisturbed(e)
  BY <1>2, <1>8, <1>9 DEF Stands, Writes, Judged, Truthful, Undisturbed, Unfinished
<1>11. Acquires(e)'
  <2>1. asked[e] # {} => asked[e] = offered
    BY Now DEF Acquires
  <2> QED BY <1>1, <1>2, <2>1 DEF Acquires
<1>12. DirectoryIsOneView'
  BY <1>1, PublishFits DEF DirectoryIsOneView, Closed
<1> QED BY <1>4, <1>5, <1>6, <1>10, <1>11, <1>12, StepKeeps
-----------------------------------------------------------------------------
(* A step that ends, plans, reports or matches publishes nothing.          *)
Quiet(e) ==
    /\ UNCHANGED <<listed, offered, changes, present, contacts, published, latest, asked>>
    /\ held' \in {held, Released(e)}
    /\ \E step \in {"report", "matched", "ended", "dead"},
           status \in {record[e].status, "dry_run", "succeeded",
                      "matching_failed", "failed"} :
        /\ run' = [run EXCEPT ![e].step = step]
        /\ record' = [record EXCEPT ![e].status = status]

LEMMA QuietKeeps ==
    ASSUME IInv, NEW e \in Executions, Quiet(e), run[e].step # "none",
           Stands(e)', Truthful(e)', run[e].kind = "refresh" =>
                (record'[e].status = "succeeded" <=> record[e].status = "succeeded")
    PROVE  IInv'
<1>1. PICK step \in {"report", "matched", "ended", "dead"},
           status \in {record[e].status, "dry_run", "succeeded",
                      "matching_failed", "failed"} :
          /\ run' = [run EXCEPT ![e].step = step]
          /\ record' = [record EXCEPT ![e].status = status]
  BY DEF Quiet
<1>2. /\ run' \in [Executions -> Run]
      /\ record' \in [Executions -> [status : Statuses, snapshot : SUBSET Facts]]
      /\ \A d \in Executions \ {e} : run'[d] = run[d] /\ record'[d] = record[d]
      /\ run'[e].step = step /\ run'[e].kind = run[e].kind
      /\ run'[e].version = run[e].version /\ record'[e].snapshot = record[e].snapshot
  <2>1. status \in Statuses /\ record \in [Executions -> [status : Statuses, snapshot : SUBSET Facts]]
    BY Now DEF TypeOK, Statuses
  <2>2. run \in [Executions -> Run] /\ [run[e] EXCEPT !.step = step] \in Run
    BY Now DEF TypeOK, Run
  <2>3. run' \in [Executions -> Run] /\ run'[e] = [run[e] EXCEPT !.step = step]
    BY <1>1, <2>2
  <2>4. run[e] \in Run
    BY Now
  <2>5. record' \in [Executions -> [status : Statuses, snapshot : SUBSET Facts]]
    BY <1>1, <2>1
  <2>6. \A d \in Executions \ {e} : run'[d] = run[d] /\ record'[d] = record[d]
    BY <1>1, <2>1, <2>2
  <2>7. record'[e].snapshot = record[e].snapshot
    BY <1>1, <2>1
  <2>8. /\ run'[e].step = step /\ run'[e].kind = run[e].kind
        /\ run'[e].version = run[e].version
    BY <2>3, <2>4 DEF Run
  <2> QED BY <2>3, <2>5, <2>6, <2>7, <2>8
<1>3. /\ held' \in [Locks -> Executions \cup {Backfill, None}]
      /\ \A d \in Executions \ {e} :
            held["acessorias"] = d => held'["acessorias"] = d
  BY Now, ReleasedFits DEF TypeOK, Quiet
<1>4. TypeOK'
  BY Now, <1>2, <1>3 DEF TypeOK, Quiet
<1>5. Versions'
  BY <1>2 DEF IInv, Versions, Quiet
<1>6. Spares(e)
  BY Now, Locked, <1>2, <1>3 DEF Spares, Quiet, provider
<1>7. Writes(e)' /\ Judged(e)' /\ Acquires(e)'
  BY Now, <1>2 DEF Writes, Judged, Acquires, Quiet
<1>8. Undisturbed(e)
  BY <1>2 DEF Undisturbed, Succeeded
<1>9. DirectoryIsOneView'
  BY Now DEF DirectoryIsOneView, Closed, Quiet
<1> QED BY <1>4, <1>5, <1>6, <1>7, <1>8, <1>9, StepKeeps

(* A plan, a report, a match and the end of a match.                       *)
LEMMA ReportingKeeps ==
    ASSUME IInv, NEW e \in Executions,
           Plan(e) \/ Report(e) \/ Match(e) \/ FinishMatching(e)
    PROVE  IInv'
<1>1. CASE Plan(e)
  <2>1. /\ run' = [run EXCEPT ![e].step = "report"] /\ run[e].step = "write"
        /\ record' = [record EXCEPT ![e].status = @] /\ run[e].kind = "dry_run"
        /\ held' = Released(e) /\ UNCHANGED <<provider, present, contacts, published, latest, asked>>
    BY Now, <1>1 DEF TypeOK, Plan
  <2>2. Quiet(e)
    BY <2>1 DEF Quiet, provider
  <2>3. /\ run'[e].step = "report" /\ run'[e].kind = run[e].kind
        /\ run'[e].version = run[e].version /\ record'[e] = record[e]
    BY Now, <2>1 DEF TypeOK, Run
  <2>4. Stands(e)' /\ Truthful(e)'
    BY Now, <2>1, <2>3 DEF Stands, Truthful, Unfinished
  <2> QED BY <2>1, <2>2, <2>3, <2>4, QuietKeeps
<1>2. CASE Report(e)
  <2>1. Quiet(e)
    BY <1>2 DEF Report, Quiet, provider
  <2>2. /\ run'[e].step = "ended" /\ run'[e].kind = run[e].kind
        /\ run'[e].version = run[e].version /\ record'[e].status = "dry_run"
    BY Now, <1>2 DEF TypeOK, Run, Report
  <2>3. Stands(e)' /\ Truthful(e)'
    BY Now, <1>2, <2>2 DEF Report, Stands, Truthful, Unfinished
  <2>4. record[e].status = "started"
    BY Now, <1>2 DEF Report, Stands, Unfinished
  <2> QED BY <1>2, <2>1, <2>2, <2>3, <2>4, QuietKeeps DEF Report
<1>3. CASE Match(e)
  <2>1. /\ run' = [run EXCEPT ![e].step = "matched"] /\ run[e].step = "match"
        /\ record' = [record EXCEPT ![e].status = @] /\ held' = held
        /\ UNCHANGED <<provider, present, contacts, published, latest, asked>>
    BY Now, <1>3 DEF TypeOK, Match
  <2>2. Quiet(e)
    BY <2>1 DEF Quiet, provider
  <2>3. /\ run'[e].step = "matched" /\ run'[e].kind = run[e].kind
        /\ run'[e].version = run[e].version /\ record'[e] = record[e]
    BY Now, <2>1 DEF TypeOK, Run
  <2>4. Stands(e)' /\ Truthful(e)'
    BY Now, <2>1, <2>3 DEF Stands, Truthful, Unfinished
  <2> QED BY <2>1, <2>2, <2>3, <2>4, QuietKeeps
<1>4. CASE FinishMatching(e)
  <2>1. Quiet(e)
    BY <1>4 DEF FinishMatching, Quiet, provider
  <2>2. /\ run'[e].step = "ended" /\ run'[e].kind = run[e].kind
        /\ run'[e].version = run[e].version
        /\ record'[e].status \in {"succeeded", "matching_failed"}
        /\ record'[e].snapshot = record[e].snapshot
        /\ run[e].step \in {"match", "matched"} /\ run[e].kind = "apply"
    BY Now, <1>4 DEF TypeOK, Run, FinishMatching, Stands
  <2>3. Stands(e)' /\ Truthful(e)'
    BY Now, <1>4, <2>2 DEF FinishMatching, Stands, Truthful, Unfinished
  <2> QED BY <2>1, <2>2, <2>3, QuietKeeps
<1> QED BY <1>1, <1>2, <1>3, <1>4

(* An error after the publication of a reconciliation is a failure too.    *)
LEMMA FailKeeps ==
    ASSUME IInv, NEW e \in Executions, Fail(e)
    PROVE  IInv'
<1>1. Quiet(e)
  BY DEF Fail, Quiet, provider
<1>2. /\ run'[e].step = "ended" /\ run'[e].kind = run[e].kind
      /\ run'[e].version = run[e].version /\ record'[e].status = "failed"
      /\ run[e].step \in Unfinished \cup {"match", "matched"}
      /\ run[e].step # "none"
  BY Now DEF TypeOK, Run, Fail, Unfinished
<1>3. Stands(e)' /\ Truthful(e)'
  BY Now, <1>2 DEF Fail, Stands, Truthful, Unfinished
<1>4. record[e].status = "started" \/ run[e].kind = "apply"
  BY Now, <1>2 DEF Stands, Unfinished
<1> QED BY <1>1, <1>2, <1>3, <1>4, QuietKeeps

(* The row of an execution that dies stays as it was.                      *)
LEMMA CrashKeeps ==
    ASSUME IInv, NEW e \in Executions, Crash(e)
    PROVE  IInv'
<1>1. /\ run' = [run EXCEPT ![e].step = "dead"] /\ run[e].step # "none"
      /\ record' = [record EXCEPT ![e].status = @] /\ held' = Released(e)
      /\ UNCHANGED <<provider, present, contacts, published, latest, asked>>
  BY Now DEF TypeOK, Crash
<1>2. Quiet(e)
  BY <1>1 DEF Quiet, provider
<1>3. /\ run'[e].step = "dead" /\ run'[e].kind = run[e].kind
      /\ run'[e].version = run[e].version /\ record'[e] = record[e]
  BY Now, <1>1 DEF TypeOK, Run
<1>4. Stands(e)' /\ Truthful(e)'
  BY Now, <1>1, <1>3 DEF Stands, Truthful, Unfinished
<1> QED BY <1>1, <1>2, <1>3, <1>4, QuietKeeps

(* The backfill stores the contacts of now.                                *)
LEMMA BackfillKeeps ==
    ASSUME IInv, BeginBackfill \/ EndBackfill
    PROVE  IInv'
<1>1. /\ UNCHANGED <<provider, present, run, record, published, latest, asked>>
      /\ contacts' \in {contacts, changes}
      /\ held' \in [Locks -> Executions \cup {Backfill, None}]
      /\ held'["acessorias"] = held["acessorias"]
  BY DEF IInv, TypeOK, BeginBackfill, EndBackfill, Locks
<1>2. TypeOK' /\ Provider'
  BY <1>1 DEF IInv, TypeOK, provider, Provider, Closed
<1>3. Versions' /\ contacts' >= contacts
  BY <1>1, DirectoryAssumption DEF IInv, TypeOK, Versions, Run, provider
<1>4. ASSUME NEW e \in Executions
      PROVE  Stands(e)' /\ Writes(e)' /\ Judged(e)' /\ Acquires(e)'
  BY <1>1 DEF IInv, Stands, Writes, Judged, Outcome, AlreadySucceeded, Acquires,
     Closed, provider
<1>5. RecordIsTruthful'
  BY <1>1, <1>3, DirectoryAssumption DEF IInv, TypeOK, Run, RecordIsTruthful
<1>6. DirectoryIsOneView'
  BY <1>1 DEF IInv, DirectoryIsOneView, Closed
<1> QED BY <1>2, <1>3, <1>4, <1>5, <1>6 DEF IInv
-----------------------------------------------------------------------------
(* Every step keeps the invariant.                                         *)
LEMMA NextKeeps == IInv /\ [Next]_vars => IInv'
<1> SUFFICES ASSUME IInv, [Next]_vars PROVE IInv'
  OBVIOUS
<1>1. CASE UNCHANGED vars
  <2>1. TypeOK' /\ Versions' /\ Provider'
    BY <1>1 DEF IInv, vars, TypeOK, Versions, Provider, Closed
  <2>2. \A e \in Executions : Stands(e)' /\ Writes(e)' /\ Judged(e)' /\ Acquires(e)'
    BY <1>1 DEF IInv, vars, Stands, Writes, Judged, Outcome, AlreadySucceeded,
       Acquires, Closed
  <2>3. DirectoryIsOneView' /\ RecordIsTruthful'
    BY <1>1 DEF IInv, vars, DirectoryIsOneView, RecordIsTruthful, Closed
  <2> QED BY <2>1, <2>2, <2>3 DEF IInv
<1>2. ASSUME NEW e \in Executions, Advance(e) PROVE IInv'
  BY <1>2, ReadDepartmentsKeeps, ReadCompanyKeeps, EndAcquisitionKeeps, LockKeeps,
     JudgeKeeps, PublishRefreshKeeps, PublishBothKeeps, ReportingKeeps DEF Advance
<1> QED BY <1>1, <1>2, ListCompanyKeeps, UnlistCompanyKeeps, TargetsKeep, StartKeeps,
           FailKeeps, CrashKeeps, BackfillKeeps DEF Next

LEMMA AlwaysIInv == Spec => []IInv
  BY InitIInv, NextKeeps, PTL DEF Spec

(* Provider, tables, locks and executions keep their shape.                *)
THEOREM TypeCorrect == Spec => []TypeOK
  BY AlwaysIInv, PTL DEF IInv

(* The directory is exactly the last view that was published, with both    *)
(* ends of each of its relations, whatever runs together.                  *)
THEOREM OneView == Spec => []DirectoryIsOneView
  BY AlwaysIInv, PTL DEF IInv

(* What a refresh concluded from the executions before it still holds when *)
(* it commits: the unique index refuses no publication.                    *)
THEOREM OutcomeHolds == Spec => []OutcomeStillHolds
<1>1. IInv => OutcomeStillHolds
  BY DEF IInv, Judged, OutcomeStillHolds
<1> QED BY <1>1, AlwaysIInv, PTL

(* What a row says of its execution is so, and a reconciliation publishes  *)
(* both of its sources or neither.                                         *)
THEOREM TruthfulRecords == Spec => []RecordIsTruthful
  BY AlwaysIInv, PTL DEF IInv

(* A view that is published without a change at the provider since its     *)
(* acquisition began is all of the provider's.                             *)
THEOREM QuietViews == Spec => QuietViewIsWhole
<1> DEFINE A == \A e \in Executions :
                  ~published[e].done /\ published'[e].done /\ asked[e] # {}
                      => present' = asked[e]
<1>1. ASSUME IInv, [Next]_vars PROVE [A]_<<published, present>>
  <2> SUFFICES ASSUME NEW e \in Executions, published'[e] # published[e], asked[e] # {}
               PROVE  present' = asked[e]
    OBVIOUS
  <2>1. PICK d \in Executions :
            /\ run[d].step = "write" /\ Publish(d)
    BY <1>1 DEF Next, vars, Advance, provider, Change, ListCompany, UnlistCompany,
       OfferTarget, WithdrawTarget, ChangeContacts, Start, ReadDepartments,
       ReadCompany, EndAcquisition, Lock, Judge, PublishRefresh, PublishBoth, Plan, Report,
       Match, FinishMatching, Fail, Crash, BeginBackfill, EndBackfill
  <2>2. e = d
    BY <1>1, <2>1, PublishFits
  <2>3. present' = run[e].facts
    BY <1>1, <2>1, <2>2, PublishFits
  <2> QED BY <1>1, <2>1, <2>2, <2>3, Now DEF Acquires
<1> QED BY <1>1, AlwaysIInv, PTL DEF Spec, QuietViewIsWhole
=============================================================================
