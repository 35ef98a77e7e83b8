------------------------- MODULE VersionStore_proofs -------------------------
(***************************************************************************)
(* What the version store guarantees for any number of invocations at      *)
(* once, any tags, patches and topologies, and interruptions anywhere.     *)
(***************************************************************************)
EXTENDS VersionStore, TLAPS

----------------------------------------------------------------------------
(* The inductive invariant *)

\* Whatever verdict the file holds, accept was once said of it.
VerdictWasGiven ==
  verdict # None /\ verdict.accept => <<verdict.patch, verdict.print>> \in accepted

\* What an invocation carries in memory from its gates to its writes.
CarriesAccepted(j) ==
  /\ j.stage \in {"check", "record"} =>
       /\ j.tag \in Tag
       /\ j.composed = j.patch
       /\ <<j.patch, PrintOf[j.declared]>> \in accepted
  /\ j.stage = "record" => Applicable(j.declared, j.composed)
  /\ j.stage \in {"inner", "snapshot"} =>
       j.composed = {} \/ <<j.composed, PrintOf[j.declared]>> \in accepted
  /\ j.stage = "current" => disk[SnapshotFile(j.label)] # Absent

JobsCarryAccepted == \A p \in Proc : job[p] # None => CarriesAccepted(job[p])

GoodRecord(r) ==
  /\ r.composed = r.patch
  /\ <<r.patch, r.print>> \in accepted
  /\ \E d \in Declared : PrintOf[d] = r.print /\ Applicable(d, r.composed)

RecordsAreGood ==
  \A t \in Tag : Readable(RecordFile(t)) => GoodRecord(disk[RecordFile(t)])

IInv ==
  /\ TypeOK
  /\ VerdictWasGiven
  /\ JobsCarryAccepted
  /\ RecordsAreGood
  /\ SnapshotsAreAccepted
  /\ CurrentHasSnapshot

----------------------------------------------------------------------------
(* Facts about files *)

LEMMA FilesDiffer ==
  /\ \A t, u \in Tag : RecordFile(t) = RecordFile(u) => t = u
  /\ \A k, l \in Label : SnapshotFile(k) = SnapshotFile(l) => k = l
  /\ \A t \in Tag, l \in Label : RecordFile(t) # SnapshotFile(l)
  /\ \A t \in Tag : RecordFile(t) # InnerFile /\ RecordFile(t) # CurrentFile
  /\ \A l \in Label : SnapshotFile(l) # InnerFile /\ SnapshotFile(l) # CurrentFile
  /\ InnerFile # CurrentFile
  /\ \A t \in Tag : RecordFile(t) \in File
  /\ \A l \in Label : SnapshotFile(l) \in File
  /\ InnerFile \in File /\ CurrentFile \in File
BY DEF RecordFile, SnapshotFile, InnerFile, CurrentFile, File

LEMMA OneFileWritten ==
  ASSUME disk = [f \in File |-> disk[f]],
         NEW f \in File, NEW v, disk' = [disk EXCEPT ![f] = v]
  PROVE  /\ disk' = [g \in File |-> disk'[g]]
         /\ disk'[f] = v
         /\ \A g \in File : g # f => disk'[g] = disk[g]
OBVIOUS

LEMMA EqualPrintsApplyAlike ==
  ASSUME NEW d \in Declared, NEW e \in Declared, PrintOf[d] = PrintOf[e], NEW q
  PROVE  Applicable(d, q) <=> Applicable(e, q)
BY VersionStoreAssumption DEF Applicable

\* What an invocation is about to write has the format of the file it goes to.
LEMMA ContentIsTyped ==
  ASSUME NEW j \in Job, CarriesAccepted(j)
  PROVE  /\ Target(j) \in File
         /\ j.stage = "record" =>
              /\ j.tag \in Tag /\ Target(j) = RecordFile(j.tag)
              /\ Content(j) \in Record
         /\ j.stage = "inner" => Target(j) = InnerFile /\ Content(j) \in Copy
         /\ j.stage = "snapshot" =>
              Target(j) = SnapshotFile(j.label) /\ Content(j) \in Snapshot
         /\ j.stage \notin {"record", "inner", "snapshot"} =>
              Target(j) = CurrentFile /\ Content(j) \in Pointer
<1>. USE VersionStoreAssumption, FilesDiffer
<1>1. CASE j.stage = "record"
  BY <1>1 DEF Target, Content, CarriesAccepted, Job, Record
<1>2. CASE j.stage = "inner"
  BY <1>2 DEF Target, Content, Job, Copy
<1>3. CASE j.stage = "snapshot"
  BY <1>3 DEF Target, Content, Job, Snapshot
<1>4. CASE j.stage \notin {"record", "inner", "snapshot"}
  BY <1>4 DEF Target, Content, Job, Pointer
<1>. QED
  BY <1>1, <1>2, <1>3, <1>4

----------------------------------------------------------------------------
(* The steps that leave the files alone *)

LEMMA InitIsGood == Init => IInv
<1>. SUFFICES ASSUME Init PROVE IInv
  OBVIOUS
<1>1. \A f \in File : disk[f] = Absent
  BY DEF Init
<1>2. TypeOK
  BY <1>1, FilesDiffer DEF Init, TypeOK
<1>. QED
  BY <1>1, <1>2, FilesDiffer
  DEF Init, IInv, VerdictWasGiven, JobsCarryAccepted, RecordsAreGood,
      SnapshotsAreAccepted, CurrentHasSnapshot, Readable

\* Files unchanged and accepted only growing: what is on disk stays good.
LEMMA FilesStayGood ==
  ASSUME IInv, disk' = disk, accepted \subseteq accepted'
  PROVE  /\ RecordsAreGood'
         /\ SnapshotsAreAccepted'
         /\ CurrentHasSnapshot'
<1>1. RecordsAreGood'
  BY DEF IInv, RecordsAreGood, GoodRecord, Readable
<1>2. SnapshotsAreAccepted'
  BY DEF IInv, SnapshotsAreAccepted, Readable
<1>3. CurrentHasSnapshot'
  BY DEF IInv, CurrentHasSnapshot, Readable
<1>. QED
  BY <1>1, <1>2, <1>3

LEMMA EditKeepsGood == IInv /\ (EditDeclared \/ EditInner) => IInv'
<1>. SUFFICES ASSUME IInv, EditDeclared \/ EditInner PROVE IInv'
  OBVIOUS
<1>1. /\ UNCHANGED <<verdict, disk, job, accepted>>
      /\ declared' \in Declared /\ inner' \in Inner
  BY DEF EditDeclared, EditInner, IInv, TypeOK
<1>2. TypeOK'
  BY <1>1 DEF IInv, TypeOK
<1>3. VerdictWasGiven' /\ JobsCarryAccepted'
  BY <1>1 DEF IInv, VerdictWasGiven, JobsCarryAccepted, CarriesAccepted
<1>. QED
  BY <1>1, <1>2, <1>3, FilesStayGood DEF IInv

LEMMA ValidateKeepsGood ==
  ASSUME IInv, NEW patch \in Proposed, NEW accept \in BOOLEAN, Validate(patch, accept)
  PROVE  IInv'
<1>1. accepted \subseteq accepted' /\ accepted' \subseteq Patch \X FP
  BY VersionStoreAssumption DEF Validate, IInv, TypeOK
<1>2. verdict' = [accept |-> accept, patch |-> patch, print |-> PrintOf[declared]]
      /\ verdict' \in Verdict
  BY VersionStoreAssumption DEF Validate, IInv, TypeOK, Verdict
<1>3. UNCHANGED <<declared, inner, disk, job>>
  BY DEF Validate
<1>4. TypeOK'
  BY <1>1, <1>2, <1>3 DEF IInv, TypeOK
<1>5. VerdictWasGiven'
  BY <1>2 DEF Validate, VerdictWasGiven
<1>6. JobsCarryAccepted'
  BY <1>1, <1>3 DEF IInv, JobsCarryAccepted, CarriesAccepted
<1>. QED
  BY <1>1, <1>3, <1>4, <1>5, <1>6, FilesStayGood DEF IInv

\* A step that changes one invocation's memory and nothing else.
LEMMA JobStep ==
  ASSUME IInv, UNCHANGED <<declared, inner, verdict, disk, accepted>>,
         NEW p \in Proc, NEW j \in Job \cup {None},
         job' = [job EXCEPT ![p] = j],
         j # None => CarriesAccepted(j)
  PROVE  IInv'
<1>1. TypeOK'
  BY DEF IInv, TypeOK
<1>2. VerdictWasGiven'
  BY DEF IInv, VerdictWasGiven
<1>3. \A q \in Proc : job'[q] = IF q = p THEN j ELSE job[q]
  BY DEF IInv, TypeOK
<1>4. JobsCarryAccepted'
  BY <1>3 DEF IInv, JobsCarryAccepted, CarriesAccepted
<1>. QED
  BY <1>1, <1>2, <1>4, FilesStayGood DEF IInv

LEMMA BeginCommitKeepsGood ==
  ASSUME IInv, NEW p \in Proc, NEW tag \in Tag, NEW base \in Base,
         NEW patch \in Proposed, BeginCommit(p, tag, base, patch)
  PROVE  IInv'
<1>. DEFINE j == [stage |-> "check", open |-> FALSE, tag |-> tag, label |-> tag,
                  base |-> base, declared |-> declared, inner |-> inner,
                  patch |-> patch, composed |-> ComposedWithBase(base, patch)]
<1>1. ComposedWithBase(base, patch) = patch /\ patch \in Patch /\ tag \in Label
  BY VersionStoreAssumption DEF ComposedWithBase
<1>2. j \in Job
  BY <1>1 DEF Job, Stage, IInv, TypeOK
<1>3. <<patch, PrintOf[declared]>> \in accepted
  BY DEF BeginCommit, GatesPass, IInv, VerdictWasGiven
<1>4. CarriesAccepted(j)
  BY <1>1, <1>3 DEF CarriesAccepted
<1>5. UNCHANGED <<declared, inner, verdict, disk, accepted>> /\ job' = [job EXCEPT ![p] = j]
  BY DEF BeginCommit
<1>. QED
  BY <1>2, <1>4, <1>5, JobStep

LEMMA CheckFreshKeepsGood ==
  ASSUME IInv, NEW p \in Proc, CheckFresh(p)
  PROVE  IInv'
<1>. DEFINE k == [job[p] EXCEPT !.stage = "record"]
<1>1. job[p] \in Job /\ job[p] # None /\ job[p].stage = "check" /\ CarriesAccepted(job[p])
  BY DEF CheckFresh, IInv, TypeOK, JobsCarryAccepted
<1>2. k \in Job
  BY <1>1 DEF Job, Stage
<1>3. Applicable(job[p].declared, job[p].composed) => CarriesAccepted(k)
  BY <1>1 DEF CarriesAccepted, Job
<1>4. UNCHANGED <<declared, inner, verdict, disk, accepted>>
  BY DEF CheckFresh
<1>5. CASE Applicable(job[p].declared, job[p].composed) /\ job' = [job EXCEPT ![p] = k]
  BY <1>2, <1>3, <1>4, <1>5, JobStep
<1>6. CASE job' = [job EXCEPT ![p] = None]
  BY <1>4, <1>6, JobStep
<1>. QED
  BY <1>5, <1>6 DEF CheckFresh

LEMMA SnapshotStageIsTyped ==
  ASSUME NEW d, NEW patch
  PROVE  SnapshotStage(d, patch) \in {"inner", "snapshot"}
BY DEF SnapshotStage

LEMMA BeginRollbackToKeepsGood ==
  ASSUME IInv, NEW p \in Proc, NEW tag \in Tag, BeginRollbackTo(p, tag)
  PROVE  IInv'
<1>. DEFINE r == disk[RecordFile(tag)]
            j == [stage |-> SnapshotStage(declared, r.composed), open |-> FALSE,
                  tag |-> tag, label |-> Restored[tag], base |-> r.base,
                  declared |-> declared, inner |-> inner,
                  patch |-> r.patch, composed |-> r.composed]
<1>1. r \in Record /\ GoodRecord(r) /\ r.print = PrintOf[declared]
  BY DEF BeginRollbackTo, Readable, IInv, TypeOK, RecordsAreGood
<1>2. j \in Job
  BY <1>1, SnapshotStageIsTyped, VersionStoreAssumption
  DEF Job, Stage, Record, IInv, TypeOK
<1>3. CarriesAccepted(j)
  BY <1>1, SnapshotStageIsTyped DEF CarriesAccepted, GoodRecord
<1>4. UNCHANGED <<declared, inner, verdict, disk, accepted>> /\ job' = [job EXCEPT ![p] = j]
  BY DEF BeginRollbackTo
<1>. QED
  BY <1>2, <1>3, <1>4, JobStep

LEMMA BeginRestoreDeclaredKeepsGood ==
  ASSUME IInv, NEW p \in Proc, BeginRestoreDeclared(p)
  PROVE  IInv'
<1>. DEFINE j == [stage |-> SnapshotStage(declared, {}), open |-> FALSE,
                  tag |-> None, label |-> DeclaredRestored, base |-> None,
                  declared |-> declared, inner |-> inner,
                  patch |-> {}, composed |-> {}]
<1>1. j \in Job
  BY SnapshotStageIsTyped, VersionStoreAssumption DEF Job, Stage, IInv, TypeOK
<1>2. CarriesAccepted(j)
  BY SnapshotStageIsTyped DEF CarriesAccepted
<1>3. UNCHANGED <<declared, inner, verdict, disk, accepted>> /\ job' = [job EXCEPT ![p] = j]
  BY DEF BeginRestoreDeclared
<1>. QED
  BY <1>1, <1>2, <1>3, JobStep

LEMMA CrashKeepsGood ==
  ASSUME IInv, NEW p \in Proc, Crash(p)
  PROVE  IInv'
BY JobStep DEF Crash

----------------------------------------------------------------------------
(* The steps that write a file *)

\* What one write does to the directory: one file of the right kind, with
\* content of its format or torn; and what was there once stays there.
WriteEffect(j, v) ==
  /\ Target(j) \in File
  /\ disk' = [g \in File |-> disk'[g]]
  /\ disk'[Target(j)] = v
  /\ \A g \in File : g # Target(j) => disk'[g] = disk[g]
  /\ \A t \in Tag : Target(j) = RecordFile(t) =>
       j.stage = "record" /\ j.tag = t /\ Content(j) \in Record
  /\ \A l \in Label : Target(j) = SnapshotFile(l) =>
       j.stage = "snapshot" /\ j.label = l /\ Content(j) \in Snapshot
  /\ Target(j) = InnerFile => j.stage = "inner" /\ Content(j) \in Copy
  /\ Target(j) = CurrentFile =>
       j.stage \notin {"record", "inner", "snapshot"} /\ Content(j) \in Pointer
  /\ \A l \in Label :
       disk[SnapshotFile(l)] # Absent => disk'[SnapshotFile(l)] # Absent

LEMMA WritesAreTyped ==
  ASSUME TypeOK, NEW j \in Job, CarriesAccepted(j),
         NEW v, v = Torn \/ v = Content(j), disk' = [disk EXCEPT ![Target(j)] = v]
  PROVE  WriteEffect(j, v)
<1>1. /\ Target(j) \in File
      /\ disk' = [g \in File |-> disk'[g]]
      /\ disk'[Target(j)] = v
      /\ \A g \in File : g # Target(j) => disk'[g] = disk[g]
  BY ContentIsTyped, OneFileWritten DEF TypeOK
<1>2. j.label \in Label
  BY DEF Job
<1>3. /\ \A t \in Tag : Target(j) = RecordFile(t) =>
           j.stage = "record" /\ j.tag = t /\ Content(j) \in Record
      /\ \A l \in Label : Target(j) = SnapshotFile(l) =>
           j.stage = "snapshot" /\ j.label = l /\ Content(j) \in Snapshot
      /\ Target(j) = InnerFile => j.stage = "inner" /\ Content(j) \in Copy
      /\ Target(j) = CurrentFile =>
           j.stage \notin {"record", "inner", "snapshot"} /\ Content(j) \in Pointer
  <2>1. CASE j.stage = "record"
    BY <2>1, ContentIsTyped, FilesDiffer
  <2>2. CASE j.stage = "inner"
    BY <2>2, ContentIsTyped, FilesDiffer
  <2>3. CASE j.stage = "snapshot"
    BY <1>2, <2>3, ContentIsTyped, FilesDiffer
  <2>4. CASE j.stage \notin {"record", "inner", "snapshot"}
    BY <2>4, ContentIsTyped, FilesDiffer
  <2>. QED
    BY <2>1, <2>2, <2>3, <2>4
<1>4. \A l \in Label :
        disk[SnapshotFile(l)] # Absent => disk'[SnapshotFile(l)] # Absent
  BY <1>1, <1>3, FilesDiffer, FilesAssumption
<1>. QED
  BY <1>1, <1>3, <1>4 DEF WriteEffect

\* A file is truncated or filled; the invocation goes on with memory k.
LEMMA WriteKeepsGood ==
  ASSUME IInv, NEW p \in Proc, job[p] # None,
         job[p].stage # "check", NEW v, v = Torn \/ v = Content(job[p]),
         disk' = [disk EXCEPT ![Target(job[p])] = v],
         UNCHANGED <<declared, inner, verdict, accepted>>,
         NEW k \in Job \cup {None}, job' = [job EXCEPT ![p] = k],
         k # None => CarriesAccepted(k)'
  PROVE  IInv'
<1>. DEFINE j == job[p]
            f == Target(j)
<1>1. j \in Job /\ CarriesAccepted(j)
  BY DEF IInv, TypeOK, JobsCarryAccepted
<1>2. WriteEffect(j, v)
  BY <1>1, WritesAreTyped DEF IInv
<1>3. TypeOK'
  <2>1. \A t \in Tag : disk'[RecordFile(t)] \in Record \cup {Absent, Torn}
    BY <1>2, FilesDiffer DEF WriteEffect, IInv, TypeOK
  <2>2. \A l \in Label : disk'[SnapshotFile(l)] \in Snapshot \cup {Absent, Torn}
    BY <1>2, FilesDiffer DEF WriteEffect, IInv, TypeOK
  <2>3. disk'[InnerFile] \in Copy \cup {Absent, Torn}
    BY <1>2, FilesDiffer DEF WriteEffect, IInv, TypeOK
  <2>4. disk'[CurrentFile] \in Pointer \cup {Absent, Torn}
    BY <1>2, FilesDiffer DEF WriteEffect, IInv, TypeOK
  <2>5. job' \in [Proc -> Job \cup {None}]
    BY DEF IInv, TypeOK
  <2>. QED
    BY <1>2, <2>1, <2>2, <2>3, <2>4, <2>5 DEF WriteEffect, IInv, TypeOK
<1>4. VerdictWasGiven'
  BY DEF IInv, VerdictWasGiven
<1>6. JobsCarryAccepted'
  <2>. SUFFICES ASSUME NEW q \in Proc, job'[q] # None
                PROVE  CarriesAccepted(job[q])' 
    BY DEF JobsCarryAccepted
  <2>1. CASE q = p
    BY <2>1 DEF IInv, TypeOK, CarriesAccepted
  <2>2. CASE q # p
    <3>1. job'[q] = job[q] /\ job[q] \in Job /\ CarriesAccepted(job[q])
      BY <2>2 DEF IInv, TypeOK, JobsCarryAccepted
    <3>2. job[q].label \in Label
      BY <3>1 DEF Job
    <3>. QED
      BY <3>1, <3>2, <1>2 DEF CarriesAccepted, WriteEffect
  <2>. QED
    BY <2>1, <2>2
<1>7. RecordsAreGood'
  <2>. SUFFICES ASSUME NEW t \in Tag, Readable(RecordFile(t))'
                PROVE  GoodRecord(disk'[RecordFile(t)])
    BY DEF RecordsAreGood, GoodRecord
  <2>1. CASE RecordFile(t) # f
    BY <2>1, <1>2, FilesDiffer DEF WriteEffect, IInv, RecordsAreGood, Readable, GoodRecord
  <2>2. CASE RecordFile(t) = f
    <3>1. v = Content(j) /\ j.stage = "record"
      BY <2>2, <1>2, FilesDiffer DEF WriteEffect, Readable
    <3>2. disk'[RecordFile(t)] =
            [base |-> j.base, print |-> PrintOf[j.declared],
             patch |-> j.patch, composed |-> j.composed]
      BY <2>2, <3>1, <1>2 DEF WriteEffect, Content
    <3>. QED
      BY <3>1, <3>2, <1>1 DEF GoodRecord, CarriesAccepted, Job
  <2>. QED
    BY <2>1, <2>2
<1>8. SnapshotsAreAccepted'
  <2>. SUFFICES ASSUME NEW l \in Label, Readable(SnapshotFile(l))'
                PROVE  \/ disk'[SnapshotFile(l)].patch = {}
                       \/ <<disk'[SnapshotFile(l)].patch,
                            PrintOf[disk'[SnapshotFile(l)].declared]>> \in accepted
    BY DEF SnapshotsAreAccepted
  <2>1. CASE SnapshotFile(l) # f
    BY <2>1, <1>2, FilesDiffer DEF WriteEffect, IInv, SnapshotsAreAccepted, Readable
  <2>2. CASE SnapshotFile(l) = f
    <3>1. v = Content(j) /\ j.stage = "snapshot"
      BY <2>2, <1>2, FilesDiffer DEF WriteEffect, Readable
    <3>2. disk'[SnapshotFile(l)] =
            [declared |-> j.declared, inner |-> j.inner, patch |-> j.composed]
      BY <2>2, <3>1, <1>2 DEF WriteEffect, Content
    <3>. QED
      BY <3>1, <3>2, <1>1 DEF CarriesAccepted
  <2>. QED
    BY <2>1, <2>2
<1>9. CurrentHasSnapshot'
  <2>. SUFFICES ASSUME Readable(CurrentFile)'
                PROVE  disk'[SnapshotFile(disk'[CurrentFile].version)] # Absent
    BY DEF CurrentHasSnapshot
  <2>1. CASE CurrentFile # f
    <3>1. disk'[CurrentFile] = disk[CurrentFile] /\ Readable(CurrentFile)
      BY <2>1, <1>2, FilesDiffer DEF WriteEffect, Readable
    <3>2. disk[CurrentFile].version \in Label
      BY <3>1 DEF IInv, TypeOK, Pointer, Readable
    <3>. QED
      BY <3>1, <3>2, <1>2 DEF IInv, CurrentHasSnapshot, WriteEffect
  <2>2. CASE CurrentFile = f
    <3>1. v = Content(j) /\ j.stage \notin {"record", "inner", "snapshot"}
      BY <2>2, <1>2, FilesDiffer DEF WriteEffect, Readable
    <3>2. j.stage \in {"check", "current"} /\ j.label \in Label
      BY <3>1, <1>1 DEF Job, Stage
    <3>3. disk'[CurrentFile] = [version |-> j.label]
      BY <2>2, <3>1, <1>2 DEF WriteEffect, Content
    <3>4. CASE j.stage = "current"
      BY <3>2, <3>3, <3>4, <1>1, <1>2 DEF CarriesAccepted, WriteEffect
    <3>. QED
      BY <3>2, <3>4
  <2>. QED
    BY <2>1, <2>2
<1>. QED
  BY <1>3, <1>4, <1>6, <1>7, <1>8, <1>9 DEF IInv

LEMMA TruncateKeepsGood ==
  ASSUME IInv, NEW p \in Proc, Truncate(p)
  PROVE  IInv'
<1>. DEFINE j == job[p]
            after == [j EXCEPT !.open = TRUE,
                               !.inner = IF j.stage = "inner" THEN inner ELSE @]
<1>1. j # None /\ j.stage # "check" /\ j \in Job /\ CarriesAccepted(j)
  BY DEF Truncate, IInv, TypeOK, JobsCarryAccepted
<1>2. /\ disk' = [disk EXCEPT ![Target(j)] = Torn]
      /\ job' = [job EXCEPT ![p] = after]
      /\ UNCHANGED <<declared, inner, verdict, accepted>>
  BY DEF Truncate
<1>3. after \in Job
  BY <1>1 DEF Job, IInv, TypeOK
<1>k. PICK k \in Job : k = after
  BY <1>3
<1>4. WriteEffect(j, Torn)
  BY <1>1, <1>2, WritesAreTyped DEF IInv
<1>5. /\ k.stage = j.stage /\ k.tag = j.tag /\ k.label = j.label
      /\ k.declared = j.declared /\ k.patch = j.patch /\ k.composed = j.composed
  BY <1>1, <1>k DEF Job
<1>6. j.label \in Label
  BY <1>1 DEF Job
<1>7. CarriesAccepted(k)'
  BY <1>1, <1>2, <1>4, <1>5, <1>6 DEF CarriesAccepted, WriteEffect
<1>. QED
  BY <1>1, <1>2, <1>k, <1>7, WriteKeepsGood

LEMMA FillKeepsGood ==
  ASSUME IInv, NEW p \in Proc, Fill(p)
  PROVE  IInv'
<1>. DEFINE j == job[p]
            after == [j EXCEPT !.stage = StageAfter(j), !.open = FALSE]
<1>1. j # None /\ j.stage # "check" /\ j \in Job /\ CarriesAccepted(j)
  BY DEF Fill, IInv, TypeOK, JobsCarryAccepted
<1>2. /\ disk' = [disk EXCEPT ![Target(j)] = Content(j)]
      /\ UNCHANGED <<declared, inner, verdict, accepted>>
  BY DEF Fill
<1>3. CASE j.stage = "current"
  <2>1. job' = [job EXCEPT ![p] = None]
    BY <1>3 DEF Fill
  <2>. QED
    BY <1>1, <1>2, <2>1, WriteKeepsGood
<1>4. CASE j.stage \in {"record", "inner", "snapshot"}
  <2>1. job' = [job EXCEPT ![p] = after]
    BY <1>4 DEF Fill
  <2>2. /\ j.stage = "record" => StageAfter(j) \in {"inner", "snapshot"}
        /\ j.stage = "inner" => StageAfter(j) = "snapshot"
        /\ j.stage = "snapshot" => StageAfter(j) = "current"
    BY SnapshotStageIsTyped DEF StageAfter
  <2>3. after \in Job
    BY <1>1, <1>4, <2>2 DEF Job, Stage
  <2>k. PICK k \in Job : k = after
    BY <2>3
  <2>4. /\ k.stage = StageAfter(j) /\ k.label = j.label /\ j.label \in Label
        /\ k.declared = j.declared /\ k.patch = j.patch /\ k.composed = j.composed
    BY <1>1, <2>k DEF Job
  <2>5. WriteEffect(j, Content(j))
    BY <1>1, <1>2, WritesAreTyped DEF IInv
  <2>6. j.stage = "snapshot" => disk'[SnapshotFile(j.label)] # Absent
    BY <1>1, <2>4, <2>5, ContentIsTyped, FilesAssumption DEF WriteEffect
  <2>7. j.stage = "record" \/ j.stage = "inner" =>
          j.composed = {} \/ <<j.composed, PrintOf[j.declared]>> \in accepted
    BY <1>1 DEF CarriesAccepted
  <2>8. CarriesAccepted(k)'
    BY <1>2, <1>4, <2>2, <2>4, <2>6, <2>7 DEF CarriesAccepted
  <2>. QED
    BY <1>1, <1>2, <2>1, <2>k, <2>8, WriteKeepsGood
<1>5. j.stage \in {"record", "inner", "snapshot", "current"}
  BY <1>1 DEF Job, Stage
<1>. QED
  BY <1>3, <1>4, <1>5

----------------------------------------------------------------------------
(* The theorems *)

\* Whatever runs, is edited or dies: every file has its format, and what
\* invocations carry in memory from their gates was once accepted.
THEOREM StoreIsGood == Spec => []IInv
<1>1. IInv /\ [Next]_vars => IInv'
  <2>. SUFFICES ASSUME IInv, [Next]_vars PROVE IInv'
    OBVIOUS
  <2>1. CASE EditDeclared \/ EditInner
    BY <2>1, EditKeepsGood
  <2>2. CASE \E patch \in Proposed, accept \in BOOLEAN : Validate(patch, accept)
    BY <2>2, ValidateKeepsGood
  <2>3. ASSUME NEW p \in Proc,
               \E tag \in Tag, base \in Base, patch \in Proposed :
                 BeginCommit(p, tag, base, patch)
        PROVE  IInv'
    BY <2>3, BeginCommitKeepsGood
  <2>4. ASSUME NEW p \in Proc, CheckFresh(p) PROVE IInv'
    BY <2>4, CheckFreshKeepsGood
  <2>5. ASSUME NEW p \in Proc, \E tag \in Tag : BeginRollbackTo(p, tag) PROVE IInv'
    BY <2>5, BeginRollbackToKeepsGood
  <2>6. ASSUME NEW p \in Proc, BeginRestoreDeclared(p) PROVE IInv'
    BY <2>6, BeginRestoreDeclaredKeepsGood
  <2>7. ASSUME NEW p \in Proc, Truncate(p) PROVE IInv'
    BY <2>7, TruncateKeepsGood
  <2>8. ASSUME NEW p \in Proc, Fill(p) PROVE IInv'
    BY <2>8, FillKeepsGood
  <2>9. ASSUME NEW p \in Proc, Crash(p) PROVE IInv'
    BY <2>9, CrashKeepsGood
  <2>10. CASE UNCHANGED vars
    <3>1. /\ disk' = disk /\ accepted \subseteq accepted'
          /\ declared' = declared /\ inner' = inner
          /\ verdict' = verdict /\ job' = job /\ accepted' = accepted
      BY <2>10 DEF vars
    <3>2. TypeOK' /\ VerdictWasGiven'
      BY <3>1, <2>10 DEF vars, IInv, TypeOK, VerdictWasGiven
    <3>3. JobsCarryAccepted'
      BY <3>1, <2>10 DEF vars, IInv, JobsCarryAccepted, CarriesAccepted
    <3>. QED
      BY <3>1, <3>2, <3>3, FilesStayGood DEF IInv
  <2>. QED
    BY <2>1, <2>2, <2>3, <2>4, <2>5, <2>6, <2>7, <2>8, <2>9, <2>10 DEF Next
<1>. QED
  BY InitIsGood, <1>1, PTL DEF Spec

\* commit and rollback: no version record without an acceptance of exactly its
\* patch on exactly its search space, and no snapshot that withholds anything
\* else, with any number of invocations at once.
THEOREM OnlyAcceptedIsKeptAlways == Spec => []OnlyAcceptedIsKept
<1>1. IInv => RecordsAreAccepted
  BY DEF IInv, RecordsAreGood, GoodRecord, RecordsAreAccepted
<1>2. IInv => SnapshotsAreAccepted
  BY DEF IInv
<1>. QED
  BY <1>1, <1>2, StoreIsGood, PTL DEF OnlyAcceptedIsKept

\* The pointer is only ever written after the snapshot it names.
THEOREM CurrentHasSnapshotAlways == Spec => []CurrentHasSnapshot
<1>1. IInv => CurrentHasSnapshot
  BY DEF IInv
<1>. QED
  BY <1>1, StoreIsGood, PTL

\* Gate and pointer together.
THEOREM StoreIsSoundAlways == Spec => []StoreIsSound
<1>1. OnlyAcceptedIsKept /\ CurrentHasSnapshot => StoreIsSound
  BY DEF StoreIsSound
<1>. QED
  BY <1>1, OnlyAcceptedIsKeptAlways, CurrentHasSnapshotAlways, PTL

\* rollback --to: a record that matches the declared fingerprint replays.
THEOREM RecordsReplayAlways == Spec => []RecordsReplay
<1>1. IInv => RecordsReplay
  BY EqualPrintsApplyAlike
  DEF IInv, TypeOK, RecordsAreGood, GoodRecord, RecordsReplay
<1>. QED
  BY <1>1, StoreIsGood, PTL

----------------------------------------------------------------------------
(* One invocation at a time: the store implements VersionHistory *)

OneAtATime == \A p, q \in Proc : p = q

\* A commit past its check still owns the name of its record: nothing can be
\* read there before its own write is complete.  This is what a second
\* invocation between record_path.exists() and the write would break.
OwnsRecord(j) ==
  /\ j.stage = "check" => ~j.open
  /\ j.stage = "record" => ~Readable(RecordFile(j.tag))

\* What an invocation is to show is nothing, or on record.
OnRecord(patch) ==
  patch = {} \/ \E t \in Tag : /\ Readable(RecordFile(t))
                               /\ disk[RecordFile(t)].composed = patch

ShowsRecorded(j) == j.stage \in {"inner", "snapshot"} => OnRecord(j.composed)

JobsKeepHistory ==
  \A p \in Proc : job[p] # None => OwnsRecord(job[p]) /\ ShowsRecorded(job[p])

SnapshotsAreOnRecord ==
  \A l \in Label : Readable(SnapshotFile(l)) => OnRecord(disk[SnapshotFile(l)].patch)

SInv == IInv /\ JobsKeepHistory /\ SnapshotsAreOnRecord

\* The records that can be read stay as they are.
RecordsStay ==
  \A t \in Tag : Readable(RecordFile(t)) =>
    Readable(RecordFile(t))' /\ disk'[RecordFile(t)] = disk[RecordFile(t)]

LEMMA OnRecordStays ==
  ASSUME RecordsStay, NEW q, OnRecord(q)
  PROVE  OnRecord(q)'
BY DEF RecordsStay, OnRecord

LEMMA OnlyJob ==
  ASSUME OneAtATime, TypeOK, NEW p \in Proc, NEW k, job' = [job EXCEPT ![p] = k],
         k # None => OwnsRecord(k)' /\ ShowsRecorded(k)'
  PROVE  JobsKeepHistory'
<1>. SUFFICES ASSUME NEW q \in Proc, job'[q] # None
              PROVE  OwnsRecord(job[q])' /\ ShowsRecorded(job[q])'
  BY DEF JobsKeepHistory
<1>1. q = p /\ job'[q] = k
  BY DEF OneAtATime, TypeOK
<1>. QED
  BY <1>1 DEF OwnsRecord, ShowsRecorded

\* A step on the files seen from VersionHistory: either the records stay as
\* they are and what is current is lost, kept or on record, or one record is
\* made under a free tag and what is current stays.
RecordsSame == \A t \in Tag : RecordedPatch(t)' = RecordedPatch(t)

KeepsOrShows ==
  /\ RecordsSame
  /\ \/ CurrentPatch' = CurrentPatch
     \/ CurrentPatch' = None
     \/ CurrentPatch' \in Patch /\ OnRecord(CurrentPatch)'

MakesRecord ==
  \E t \in Tag, q \in Patch :
    /\ RecordedPatch(t) = None
    /\ RecordedPatch(t)' = q
    /\ \A u \in Tag : u # t => RecordedPatch(u)' = RecordedPatch(u)
    /\ CurrentPatch' = CurrentPatch

\* The steps that leave the files alone.
LEMMA FilesAlone ==
  ASSUME SInv, disk' = disk
  PROVE  /\ RecordsStay /\ SnapshotsAreOnRecord' /\ KeepsOrShows
         /\ \A j : OwnsRecord(j) /\ ShowsRecorded(j) =>
                     OwnsRecord(j)' /\ ShowsRecorded(j)'
<1>1. RecordsStay
  BY DEF RecordsStay, Readable
<1>2. SnapshotsAreOnRecord'
  BY DEF SInv, SnapshotsAreOnRecord, OnRecord, Readable
<1>3. RecordsSame /\ CurrentPatch' = CurrentPatch
  BY DEF RecordsSame, RecordedPatch, CurrentPatch, Readable
<1>4. \A j : OwnsRecord(j) /\ ShowsRecorded(j) => OwnsRecord(j)' /\ ShowsRecorded(j)'
  BY DEF OwnsRecord, ShowsRecorded, OnRecord, Readable
<1>. QED
  BY <1>1, <1>2, <1>3, <1>4 DEF KeepsOrShows

\* What one step preserves, and how it looks from VersionHistory.
StepKeepsHistory ==
  /\ JobsKeepHistory' /\ SnapshotsAreOnRecord' /\ RecordsStay
  /\ KeepsOrShows \/ MakesRecord

LEMMA JobsUnchangedKeepHistory ==
  ASSUME SInv, disk' = disk, job' = job
  PROVE  StepKeepsHistory
<1>1. JobsKeepHistory'
  BY FilesAlone DEF SInv, JobsKeepHistory
<1>. QED
  BY <1>1, FilesAlone DEF StepKeepsHistory

LEMMA NewJobKeepsHistory ==
  ASSUME OneAtATime, SInv, disk' = disk, NEW p \in Proc, NEW k,
         job' = [job EXCEPT ![p] = k],
         k # None => OwnsRecord(k) /\ ShowsRecorded(k)
  PROVE  StepKeepsHistory
<1>1. k # None => OwnsRecord(k)' /\ ShowsRecorded(k)'
  BY FilesAlone
<1>2. JobsKeepHistory'
  BY <1>1, OnlyJob DEF SInv, IInv
<1>. QED
  BY <1>2, FilesAlone DEF StepKeepsHistory

LEMMA BeginKeepsHistory ==
  ASSUME OneAtATime, SInv, NEW p \in Proc,
         \/ \E tag \in Tag, base \in Base, patch \in Proposed :
              BeginCommit(p, tag, base, patch)
         \/ CheckFresh(p)
         \/ \E tag \in Tag : BeginRollbackTo(p, tag)
         \/ BeginRestoreDeclared(p)
         \/ Crash(p)
  PROVE  StepKeepsHistory
<1>. SUFFICES ASSUME NEW k, job' = [job EXCEPT ![p] = k], disk' = disk, k # None
              PROVE  OwnsRecord(k) /\ ShowsRecorded(k)
  BY NewJobKeepsHistory DEF BeginCommit, CheckFresh, BeginRollbackTo,
                            BeginRestoreDeclared, Crash
<1>0. job'[p] = k
  BY DEF SInv, IInv, TypeOK
<1>1. ASSUME NEW tag \in Tag, NEW base \in Base, NEW patch \in Proposed,
             BeginCommit(p, tag, base, patch)
      PROVE  OwnsRecord(k) /\ ShowsRecorded(k)
  <2>1. k.stage = "check" /\ k.open = FALSE
    BY <1>0, <1>1 DEF BeginCommit, SInv, IInv, TypeOK
  <2>. QED
    BY <2>1 DEF OwnsRecord, ShowsRecorded
<1>2. CASE CheckFresh(p)
  <2>1. job[p] \in Job
    BY <1>2 DEF CheckFresh, SInv, IInv, TypeOK
  <2>2. k.stage = "record" /\ disk[RecordFile(k.tag)] = Absent
    BY <1>0, <1>2, <2>1 DEF CheckFresh, Job, SInv, IInv, TypeOK
  <2>. QED
    BY <2>2 DEF OwnsRecord, ShowsRecorded, Readable
<1>3. ASSUME NEW tag \in Tag, BeginRollbackTo(p, tag)
      PROVE  OwnsRecord(k) /\ ShowsRecorded(k)
  <2>1. k.stage \in {"inner", "snapshot"} /\ k.composed = disk[RecordFile(tag)].composed
    BY <1>0, <1>3, SnapshotStageIsTyped DEF BeginRollbackTo, SInv, IInv, TypeOK
  <2>. QED
    BY <1>3, <2>1 DEF BeginRollbackTo, OwnsRecord, ShowsRecorded, OnRecord
<1>4. CASE BeginRestoreDeclared(p)
  <2>1. k.stage \in {"inner", "snapshot"} /\ k.composed = {}
    BY <1>0, <1>4, SnapshotStageIsTyped DEF BeginRestoreDeclared, SInv, IInv, TypeOK
  <2>. QED
    BY <2>1 DEF OwnsRecord, ShowsRecorded, OnRecord
<1>5. CASE Crash(p)
  BY <1>0, <1>5 DEF Crash, SInv, IInv, TypeOK
<1>. QED
  BY <1>1, <1>2, <1>3, <1>4, <1>5

\* One write, seen from the records, the snapshots and the pointer.
LEMMA WriteOnFiles ==
  ASSUME SInv, NEW j \in Job, CarriesAccepted(j), OwnsRecord(j), ShowsRecorded(j),
         j.stage # "check",
         NEW v, v = Torn \/ v = Content(j), disk' = [disk EXCEPT ![Target(j)] = v]
  PROVE  /\ RecordsStay
         /\ SnapshotsAreOnRecord'
         /\ \A t \in Tag : RecordFile(t) # Target(j) =>
              RecordedPatch(t)' = RecordedPatch(t)
         /\ j.stage = "record" =>
              CurrentPatch' = CurrentPatch /\ RecordedPatch(j.tag) = None
         /\ v = Torn => \A t \in Tag : RecordedPatch(t)' = RecordedPatch(t)
<1>1. WriteEffect(j, v)
  BY WritesAreTyped DEF SInv, IInv
<1>2. \A t \in Tag : RecordFile(t) # Target(j) =>
        /\ disk'[RecordFile(t)] = disk[RecordFile(t)]
        /\ Readable(RecordFile(t))' <=> Readable(RecordFile(t))
  BY <1>1, FilesDiffer DEF WriteEffect, Readable
<1>3. \A t \in Tag : RecordFile(t) = Target(j) => ~Readable(RecordFile(t))
  BY <1>1 DEF WriteEffect, OwnsRecord
<1>4. RecordsStay
  BY <1>2, <1>3 DEF RecordsStay
<1>5. SnapshotsAreOnRecord'
  <2>. SUFFICES ASSUME NEW l \in Label, Readable(SnapshotFile(l))'
                PROVE  OnRecord(disk[SnapshotFile(l)].patch)'
    BY DEF SnapshotsAreOnRecord
  <2>1. CASE SnapshotFile(l) # Target(j)
    <3>1. disk'[SnapshotFile(l)] = disk[SnapshotFile(l)] /\ Readable(SnapshotFile(l))
      BY <2>1, <1>1, FilesDiffer DEF WriteEffect, Readable
    <3>2. OnRecord(disk[SnapshotFile(l)].patch)
      BY <3>1 DEF SInv, SnapshotsAreOnRecord
    <3>. QED
      BY <3>1, <3>2, <1>4 DEF OnRecord, RecordsStay
  <2>2. CASE SnapshotFile(l) = Target(j)
    <3>1. v = Content(j) /\ j.stage = "snapshot"
      BY <2>2, <1>1 DEF WriteEffect, Readable
    <3>2. disk'[SnapshotFile(l)].patch = j.composed
      BY <2>2, <3>1, <1>1 DEF WriteEffect, Content
    <3>3. OnRecord(j.composed)
      BY <3>1 DEF ShowsRecorded
    <3>. QED
      BY <3>2, <3>3, <1>4 DEF OnRecord, RecordsStay
  <2>. QED
    BY <2>1, <2>2
<1>6. \A t \in Tag : RecordFile(t) # Target(j) => RecordedPatch(t)' = RecordedPatch(t)
  BY <1>2 DEF RecordedPatch
<1>7. ASSUME j.stage = "record"
      PROVE  CurrentPatch' = CurrentPatch /\ RecordedPatch(j.tag) = None
  <2>1. Target(j) = RecordFile(j.tag) /\ j.tag \in Tag
    BY <1>7, ContentIsTyped
  <2>2. disk'[CurrentFile] = disk[CurrentFile]
    BY <2>1, <1>1, FilesDiffer DEF WriteEffect
  <2>3. \A l \in Label : disk'[SnapshotFile(l)] = disk[SnapshotFile(l)]
    BY <2>1, <1>1, FilesDiffer DEF WriteEffect
  <2>4. Readable(CurrentFile) => disk[CurrentFile].version \in Label
    BY DEF SInv, IInv, TypeOK, Pointer, Readable
  <2>5. CurrentPatch' = CurrentPatch
    BY <2>2, <2>3, <2>4 DEF CurrentPatch, Readable
  <2>. QED
    BY <1>7, <2>5 DEF OwnsRecord, RecordedPatch
<1>8. ASSUME v = Torn, NEW t \in Tag PROVE RecordedPatch(t)' = RecordedPatch(t)
  BY <1>1, <1>3, <1>6, <1>8 DEF RecordedPatch, WriteEffect, Readable
<1>. QED
  BY <1>4, <1>5, <1>6, <1>7, <1>8

\* Whatever is current afterwards is on record, or is the declared topology.
LEMMA CurrentIsOnRecord ==
  ASSUME IInv', SnapshotsAreOnRecord'
  PROVE  CurrentPatch' = None \/ (CurrentPatch' \in Patch /\ OnRecord(CurrentPatch)')
BY DEF IInv, TypeOK, SnapshotsAreOnRecord, CurrentPatch, Readable, Pointer, Snapshot

LEMMA TruncateKeepsHistory ==
  ASSUME OneAtATime, SInv, IInv', NEW p \in Proc, Truncate(p)
  PROVE  StepKeepsHistory
<1>0. PICK j \in Job : j = job[p]
  BY DEF Truncate, SInv, IInv, TypeOK
<1>. DEFINE after == [j EXCEPT !.open = TRUE,
                               !.inner = IF j.stage = "inner" THEN inner ELSE @]
<1>1. /\ j # None /\ j.stage # "check" /\ j \in Job
      /\ CarriesAccepted(j) /\ OwnsRecord(j) /\ ShowsRecorded(j)
  BY <1>0 DEF Truncate, SInv, IInv, TypeOK, JobsCarryAccepted, JobsKeepHistory
<1>2. disk' = [disk EXCEPT ![Target(j)] = Torn] /\ job' = [job EXCEPT ![p] = after]
  BY <1>0 DEF Truncate
<1>3. PICK k : k = after
  OBVIOUS
<1>4. k.stage = j.stage /\ k.tag = j.tag /\ k.composed = j.composed
  BY <1>1, <1>3 DEF Job
<1>5. /\ RecordsStay /\ SnapshotsAreOnRecord' /\ RecordsSame
  BY <1>1, <1>2, WriteOnFiles DEF RecordsSame
<1>6. OwnsRecord(k)'
  <2>1. WriteEffect(j, Torn)
    BY <1>1, <1>2, WritesAreTyped DEF SInv, IInv
  <2>2. k.stage = "record" => Target(j) = RecordFile(k.tag)
    BY <1>1, <1>4, ContentIsTyped
  <2>3. k.stage = "record" => ~Readable(RecordFile(k.tag))'
    BY <2>1, <2>2 DEF Readable, WriteEffect
  <2>. QED
    BY <1>1, <1>4, <2>3 DEF OwnsRecord
<1>7. ShowsRecorded(k)'
  BY <1>1, <1>4, <1>5, OnRecordStays DEF ShowsRecorded
<1>8. JobsKeepHistory'
  BY <1>2, <1>3, <1>6, <1>7, OnlyJob DEF SInv, IInv
<1>9. CurrentPatch' = None \/ (CurrentPatch' \in Patch /\ OnRecord(CurrentPatch)')
  BY <1>5, CurrentIsOnRecord
<1>. QED
  BY <1>5, <1>8, <1>9 DEF StepKeepsHistory, KeepsOrShows

LEMMA FillKeepsHistory ==
  ASSUME OneAtATime, SInv, IInv', NEW p \in Proc, Fill(p)
  PROVE  StepKeepsHistory
<1>0. PICK j \in Job : j = job[p]
  BY DEF Fill, SInv, IInv, TypeOK
<1>. DEFINE after == IF j.stage = "current" THEN None
                     ELSE [j EXCEPT !.stage = StageAfter(j), !.open = FALSE]
<1>1. /\ j # None /\ j.stage # "check" /\ j \in Job
      /\ CarriesAccepted(j) /\ OwnsRecord(j) /\ ShowsRecorded(j)
  BY <1>0 DEF Fill, SInv, IInv, TypeOK, JobsCarryAccepted, JobsKeepHistory
<1>2. disk' = [disk EXCEPT ![Target(j)] = Content(j)] /\ job' = [job EXCEPT ![p] = after]
  BY <1>0 DEF Fill
<1>3. PICK k : k = after
  OBVIOUS
<1>4. RecordsStay /\ SnapshotsAreOnRecord'
  BY <1>1, <1>2, WriteOnFiles
<1>5. WriteEffect(j, Content(j))
  BY <1>1, <1>2, WritesAreTyped DEF SInv, IInv
<1>6. ASSUME j.stage = "record"
      PROVE  /\ Target(j) = RecordFile(j.tag) /\ j.tag \in Tag
             /\ Readable(RecordFile(j.tag))'
             /\ disk'[RecordFile(j.tag)].composed = j.composed
             /\ j.composed \in Patch
  <2>1. /\ Target(j) = RecordFile(j.tag) /\ j.tag \in Tag /\ Content(j) \in Record
        /\ j.composed \in Patch
    BY <1>1, <1>6, ContentIsTyped DEF Job
  <2>2. disk'[RecordFile(j.tag)] = Content(j)
    BY <2>1, <1>5 DEF WriteEffect
  <2>3. Content(j).composed = j.composed
    BY <1>6 DEF Content
  <2>. QED
    BY <2>1, <2>2, <2>3, FilesAssumption DEF Readable
<1>7. JobsKeepHistory'
  <2>1. /\ j.stage = "record" => StageAfter(j) \in {"inner", "snapshot"}
        /\ j.stage = "inner" => StageAfter(j) = "snapshot"
        /\ j.stage = "snapshot" => StageAfter(j) = "current"
    BY SnapshotStageIsTyped DEF StageAfter
  <2>2. j.stage \in {"record", "inner", "snapshot", "current"}
    BY <1>1 DEF Job, Stage
  <2>3. ASSUME k # None PROVE OwnsRecord(k)' /\ ShowsRecorded(k)'
    <3>1. /\ k.stage = StageAfter(j) /\ k.composed = j.composed
          /\ j.stage \in {"record", "inner", "snapshot"}
      BY <1>1, <1>3, <2>2, <2>3 DEF Job
    <3>2. k.stage \in {"inner", "snapshot", "current"}
      BY <2>1, <3>1
    <3>3. k.stage \in {"inner", "snapshot"} => OnRecord(k.composed)'
      <4>1. CASE j.stage = "record"
        BY <4>1, <1>6, <3>1 DEF OnRecord
      <4>2. CASE j.stage = "inner"
        BY <4>2, <1>1, <1>4, <3>1, OnRecordStays DEF ShowsRecorded
      <4>3. CASE j.stage = "snapshot"
        BY <4>3, <2>1, <3>1
      <4>. QED
        BY <4>1, <4>2, <4>3, <3>1
    <3>. QED
      BY <3>2, <3>3 DEF OwnsRecord, ShowsRecorded
  <2>. QED
    BY <1>2, <1>3, <2>3, OnlyJob DEF SInv, IInv
<1>8. CASE j.stage = "record"
  <2>1. \A u \in Tag : u # j.tag => RecordedPatch(u)' = RecordedPatch(u)
    BY <1>1, <1>2, <1>6, <1>8, WriteOnFiles, FilesDiffer
  <2>2. CurrentPatch' = CurrentPatch /\ RecordedPatch(j.tag) = None
    BY <1>1, <1>2, <1>8, WriteOnFiles
  <2>3. PICK t \in Tag, q \in Patch : t = j.tag /\ q = j.composed
    BY <1>6, <1>8
  <2>4. RecordedPatch(t)' = q
    BY <1>6, <1>8, <2>3 DEF RecordedPatch
  <2>5. MakesRecord
    BY <2>1, <2>2, <2>3, <2>4 DEF MakesRecord
  <2>. QED
    BY <1>4, <1>7, <2>5 DEF StepKeepsHistory
<1>9. CASE j.stage # "record"
  <2>1. \A t \in Tag : RecordFile(t) # Target(j)
    BY <1>5, <1>9 DEF WriteEffect
  <2>2. RecordsSame
    BY <1>1, <1>2, <2>1, WriteOnFiles DEF RecordsSame
  <2>3. CurrentPatch' = None \/ (CurrentPatch' \in Patch /\ OnRecord(CurrentPatch)')
    BY <1>4, CurrentIsOnRecord
  <2>. QED
    BY <1>4, <1>7, <2>2, <2>3 DEF StepKeepsHistory, KeepsOrShows
<1>. QED
  BY <1>8, <1>9

LEMMA NextKeepsHistory ==
  ASSUME OneAtATime, SInv, IInv', [Next]_vars
  PROVE  StepKeepsHistory
<1>1. CASE EditDeclared \/ EditInner
  BY <1>1, JobsUnchangedKeepHistory DEF EditDeclared, EditInner
<1>2. ASSUME NEW patch \in Proposed, NEW accept \in BOOLEAN, Validate(patch, accept)
      PROVE  StepKeepsHistory
  BY <1>2, JobsUnchangedKeepHistory DEF Validate
<1>3. ASSUME NEW p \in Proc,
             \/ \E tag \in Tag, base \in Base, patch \in Proposed :
                  BeginCommit(p, tag, base, patch)
             \/ CheckFresh(p)
             \/ \E tag \in Tag : BeginRollbackTo(p, tag)
             \/ BeginRestoreDeclared(p)
             \/ Crash(p)
      PROVE  StepKeepsHistory
  BY <1>3, BeginKeepsHistory
<1>4. ASSUME NEW p \in Proc, Truncate(p) PROVE StepKeepsHistory
  BY <1>4, TruncateKeepsHistory
<1>5. ASSUME NEW p \in Proc, Fill(p) PROVE StepKeepsHistory
  BY <1>5, FillKeepsHistory
<1>6. CASE UNCHANGED vars
  BY <1>6, JobsUnchangedKeepHistory DEF vars
<1>. QED
  BY <1>1, <1>2, <1>3, <1>4, <1>5, <1>6 DEF Next

\* The inductive invariant of a single invocation.
THEOREM HistoryInvariant == OneAtATime => (Spec => []SInv)
<1>. SUFFICES ASSUME OneAtATime PROVE Spec => []SInv
  OBVIOUS
<1>1. Init => SInv
  <2>. SUFFICES ASSUME Init PROVE SInv
    OBVIOUS
  <2>1. \A f \in File : disk[f] = Absent
    BY DEF Init
  <2>2. JobsKeepHistory /\ SnapshotsAreOnRecord
    BY <2>1, FilesDiffer DEF Init, JobsKeepHistory, SnapshotsAreOnRecord, Readable
  <2>. QED
    BY <2>2, InitIsGood DEF SInv
<1>2. SInv /\ IInv' /\ [Next]_vars => SInv'
  BY NextKeepsHistory DEF SInv, StepKeepsHistory
<1>. QED
  BY <1>1, <1>2, StoreIsGood, PTL DEF Spec

\* commit's "topology versions are immutable" and rollback's "history
\* untouched", as long as one invocation runs at a time: no record that can be
\* read ever changes, whatever crashes or is retried.
THEOREM HistoryIsUntouched == OneAtATime => (Spec => HistoryUntouched)
<1>. SUFFICES ASSUME OneAtATime PROVE Spec => HistoryUntouched
  OBVIOUS
<1>1. SInv /\ IInv' /\ [Next]_vars =>
        [\A t \in Tag : Readable(RecordFile(t)) =>
           disk'[RecordFile(t)] = disk[RecordFile(t)]]_vars
  BY NextKeepsHistory DEF StepKeepsHistory, RecordsStay
<1>. QED
  BY <1>1, HistoryInvariant, StoreIsGood, PTL DEF Spec, HistoryUntouched

\* The store implements VersionHistory as long as one invocation runs at a
\* time: a write-once history, and a current topology that withholds nothing
\* or what some version of the history withholds.
THEOREM StoreImplementsHistory == OneAtATime => (Spec => KeepsVersionHistory)
<1>. SUFFICES ASSUME OneAtATime PROVE Spec => KeepsVersionHistory
  OBVIOUS
<1>1. Init => Promise!Init
  <2>. SUFFICES ASSUME Init PROVE Promise!Init
    OBVIOUS
  <2>1. \A f \in File : disk[f] = Absent
    BY DEF Init
  <2>2. CurrentPatch = None /\ \A t \in Tag : RecordedPatch(t) = None
    BY <2>1, FilesDiffer DEF CurrentPatch, RecordedPatch, Readable
  <2>. QED
    BY <2>2 DEF Promise!Init
<1>2. SInv /\ IInv' /\ [Next]_vars => 
        [Promise!Next]_<<[t \in Tag |-> RecordedPatch(t)], CurrentPatch>>
  <2>. SUFFICES ASSUME SInv, IInv', [Next]_vars
                PROVE  [Promise!Next]_<<[t \in Tag |-> RecordedPatch(t)], CurrentPatch>>
    OBVIOUS
  <2>. DEFINE history == [t \in Tag |-> RecordedPatch(t)]
  <2>1. CASE KeepsOrShows
    <3>1. history' = history
      BY <2>1 DEF KeepsOrShows, RecordsSame
    <3>2. CASE CurrentPatch' = CurrentPatch
      BY <3>1, <3>2
    <3>3. CASE CurrentPatch' = None
      BY <3>1, <3>3 DEF Promise!Next, Promise!Lose
    <3>4. CASE CurrentPatch' \in Patch /\ OnRecord(CurrentPatch)'
      <4>1. CurrentPatch' = {} \/ \E t \in Tag : RecordedPatch(t)' = CurrentPatch'
        BY <3>4 DEF OnRecord, RecordedPatch
      <4>2. CurrentPatch' = {} \/ \E t \in Tag : history[t] = CurrentPatch'
        BY <2>1, <4>1 DEF KeepsOrShows, RecordsSame
      <4>3. PICK q \in Patch : q = CurrentPatch'
        BY <3>4
      <4>4. Promise!Show(q)
        BY <3>1, <4>2, <4>3 DEF Promise!Show
      <4>. QED
        BY <4>4 DEF Promise!Next
    <3>. QED
      BY <2>1, <3>2, <3>3, <3>4 DEF KeepsOrShows
  <2>2. CASE MakesRecord
    <3>1. PICK t \in Tag, q \in Patch :
            /\ RecordedPatch(t) = None
            /\ RecordedPatch(t)' = q
            /\ \A u \in Tag : u # t => RecordedPatch(u)' = RecordedPatch(u)
            /\ CurrentPatch' = CurrentPatch
      BY <2>2 DEF MakesRecord
    <3>2. history' = [history EXCEPT ![t] = q]
      BY <3>1
    <3>3. Promise!Record(t, q)
      BY <3>1, <3>2 DEF Promise!Record
    <3>. QED
      BY <3>3 DEF Promise!Next
  <2>. QED
    BY <2>1, <2>2, NextKeepsHistory DEF StepKeepsHistory
<1>. QED
  BY <1>1, <1>2, HistoryInvariant, StoreIsGood, PTL DEF Spec, KeepsVersionHistory, Promise!Spec

----------------------------------------------------------------------------
(* One invocation at a time: snapshots show what records say *)

\* The names tell snapshots apart: no tag is named as a rollback would name its
\* snapshot.  The code does not refuse such tags.
NamesDiffer ==
  /\ \A t \in Tag : DeclaredRestored \notin {t, Restored[t]}
  /\ \A t, u \in Tag : {t, Restored[t]} \cap {u, Restored[u]} # {} => t = u

\* What is shown under the label of a tag, as committed or as restored: the
\* record of the tag is there, says so, and of the same search space.
ShowsItsRecord(l, d, q) ==
  \A t \in Tag : l \in {t, Restored[t]} =>
    /\ Readable(RecordFile(t))
    /\ q = disk[RecordFile(t)].composed
    /\ PrintOf[d] = disk[RecordFile(t)].print

\* A commit goes by its tag; what is about to be shown is shown under its name.
GoesByItsName(j) ==
  /\ j.stage \in {"check", "record"} => j.tag \in Tag /\ j.label = j.tag
  /\ j.stage \in {"inner", "snapshot"} => ShowsItsRecord(j.label, j.declared, j.composed)

JobsGoByName == \A p \in Proc : job[p] # None => GoesByItsName(job[p])

SnapshotsShowRecords ==
  \A l \in Label : Readable(SnapshotFile(l)) =>
    ShowsItsRecord(l, disk[SnapshotFile(l)].declared, disk[SnapshotFile(l)].patch)

MInv == JobsGoByName /\ SnapshotsShowRecords

LEMMA ShownStaysShown ==
  ASSUME RecordsStay, NEW l, NEW d, NEW q, ShowsItsRecord(l, d, q)
  PROVE  ShowsItsRecord(l, d, q)'
BY DEF RecordsStay, ShowsItsRecord

LEMMA OnlyJobIsNamed ==
  ASSUME OneAtATime, TypeOK, NEW p \in Proc, NEW k, job' = [job EXCEPT ![p] = k],
         k # None => GoesByItsName(k)'
  PROVE  JobsGoByName'
<1>. SUFFICES ASSUME NEW q \in Proc, job'[q] # None PROVE GoesByItsName(job[q])'
  BY DEF JobsGoByName
<1>1. q = p /\ job'[q] = k
  BY DEF OneAtATime, TypeOK
<1>. QED
  BY <1>1 DEF GoesByItsName

\* Nothing is written: the snapshots stay, and a job that starts or is checked is
\* named as it should be.
LEMMA UnwrittenKeepsNames ==
  ASSUME MInv, disk' = disk
  PROVE  SnapshotsShowRecords'
BY DEF MInv, SnapshotsShowRecords, ShowsItsRecord, Readable

LEMMA BeginKeepsNames ==
  ASSUME OneAtATime, NamesDiffer, SInv, MInv, NEW p \in Proc,
         \/ \E tag \in Tag, base \in Base, patch \in Proposed :
              BeginCommit(p, tag, base, patch)
         \/ CheckFresh(p)
         \/ \E tag \in Tag : BeginRollbackTo(p, tag)
         \/ BeginRestoreDeclared(p)
         \/ Crash(p)
  PROVE  MInv'
<1>0. PICK k : job' = [job EXCEPT ![p] = k] /\ disk' = disk
  BY DEF BeginCommit, CheckFresh, BeginRollbackTo, BeginRestoreDeclared, Crash
<1>a. job'[p] = k /\ TypeOK
  BY <1>0 DEF SInv, IInv, TypeOK
<1>b. SUFFICES ASSUME k # None PROVE GoesByItsName(k)
  BY <1>0, <1>a, UnwrittenKeepsNames, OnlyJobIsNamed
  DEF MInv, GoesByItsName, ShowsItsRecord, Readable
<1>1. ASSUME NEW tag \in Tag, NEW base \in Base, NEW patch \in Proposed,
             BeginCommit(p, tag, base, patch)
      PROVE  GoesByItsName(k)
  <2>1. k.stage = "check" /\ k.tag = tag /\ k.label = tag
    BY <1>0, <1>a, <1>1 DEF BeginCommit, TypeOK
  <2>. QED
    BY <2>1 DEF GoesByItsName
<1>2. CASE CheckFresh(p)
  <2>1. /\ job[p] \in Job /\ job[p].stage = "check" /\ job[p] # None
        /\ k = [job[p] EXCEPT !.stage = "record"]
    BY <1>a, <1>0, <1>b, <1>2 DEF CheckFresh, TypeOK
  <2>2. k.stage = "record" /\ k.tag = job[p].tag /\ k.label = job[p].label
    BY <2>1 DEF Job
  <2>. QED
    BY <2>1, <2>2 DEF GoesByItsName, MInv, JobsGoByName
<1>3. ASSUME NEW tag \in Tag, BeginRollbackTo(p, tag) PROVE GoesByItsName(k)
  <2>1. /\ k.stage \in {"inner", "snapshot"} /\ k.label = Restored[tag]
        /\ k.declared = declared /\ k.composed = disk[RecordFile(tag)].composed
    BY <1>0, <1>a, <1>3, SnapshotStageIsTyped DEF BeginRollbackTo, TypeOK
  <2>2. \A t \in Tag : k.label \in {t, Restored[t]} => t = tag
    BY <2>1 DEF NamesDiffer
  <2>3. Readable(RecordFile(tag)) /\ disk[RecordFile(tag)].print = PrintOf[declared]
    BY <1>3 DEF BeginRollbackTo
  <2>. QED
    BY <2>1, <2>2, <2>3 DEF GoesByItsName, ShowsItsRecord
<1>4. CASE BeginRestoreDeclared(p)
  <2>1. k.stage \in {"inner", "snapshot"} /\ k.label = DeclaredRestored
    BY <1>0, <1>a, <1>4, SnapshotStageIsTyped DEF BeginRestoreDeclared, TypeOK
  <2>. QED
    BY <2>1 DEF GoesByItsName, ShowsItsRecord, NamesDiffer
<1>5. CASE Crash(p)
  BY <1>0, <1>a, <1>b, <1>5 DEF Crash, TypeOK
<1>. QED
  BY <1>1, <1>2, <1>3, <1>4, <1>5

\* A write leaves other snapshots alone, and writes what the job carries.
LEMMA WriteKeepsShown ==
  ASSUME MInv, RecordsStay, NEW j \in Job, GoesByItsName(j),
         NEW v, v = Torn \/ v = Content(j), WriteEffect(j, v)
  PROVE  SnapshotsShowRecords'
<1>. SUFFICES ASSUME NEW l \in Label, Readable(SnapshotFile(l))'
              PROVE  ShowsItsRecord(l, disk[SnapshotFile(l)].declared,
                                    disk[SnapshotFile(l)].patch)'
  BY DEF SnapshotsShowRecords
<1>1. PICK d, q : d = disk'[SnapshotFile(l)].declared /\ q = disk'[SnapshotFile(l)].patch
  OBVIOUS
<1>2. CASE SnapshotFile(l) # Target(j)
  <2>1. disk'[SnapshotFile(l)] = disk[SnapshotFile(l)] /\ Readable(SnapshotFile(l))
    BY <1>2, FilesDiffer DEF WriteEffect, Readable
  <2>2. ShowsItsRecord(l, d, q)
    BY <1>1, <2>1 DEF MInv, SnapshotsShowRecords
  <2>3. ShowsItsRecord(l, d, q)'
    BY <2>2, ShownStaysShown
  <2>. QED
    BY <1>1, <2>3 DEF ShowsItsRecord
<1>3. CASE SnapshotFile(l) = Target(j)
  <2>1. v = Content(j) /\ j.stage = "snapshot" /\ j.label = l
    BY <1>3 DEF WriteEffect, Readable
  <2>2. d = j.declared /\ q = j.composed
    BY <1>1, <1>3, <2>1 DEF WriteEffect, Content
  <2>3. ShowsItsRecord(l, d, q)
    BY <2>1, <2>2 DEF GoesByItsName
  <2>4. ShowsItsRecord(l, d, q)'
    BY <2>3, ShownStaysShown
  <2>. QED
    BY <1>1, <2>4 DEF ShowsItsRecord
<1>. QED
  BY <1>2, <1>3

LEMMA TruncateKeepsNames ==
  ASSUME OneAtATime, SInv, MInv, RecordsStay, NEW p \in Proc, Truncate(p)
  PROVE  MInv'
<1>0. PICK j \in Job : j = job[p]
  BY DEF Truncate, SInv, IInv, TypeOK
<1>1. /\ j # None /\ j.stage # "check" /\ CarriesAccepted(j) /\ GoesByItsName(j)
  BY <1>0 DEF Truncate, SInv, IInv, JobsCarryAccepted, MInv, JobsGoByName
<1>2. PICK k : k = [j EXCEPT !.open = TRUE,
                             !.inner = IF j.stage = "inner" THEN inner ELSE @]
  OBVIOUS
<1>3. disk' = [disk EXCEPT ![Target(j)] = Torn] /\ job' = [job EXCEPT ![p] = k]
  BY <1>0, <1>2 DEF Truncate
<1>4. /\ k.stage = j.stage /\ k.tag = j.tag /\ k.label = j.label
      /\ k.declared = j.declared /\ k.composed = j.composed
  BY <1>2 DEF Job
<1>5. SnapshotsShowRecords'
  BY <1>1, <1>3, WritesAreTyped, WriteKeepsShown DEF SInv, IInv
<1>6. GoesByItsName(k)'
  BY <1>1, <1>4, ShownStaysShown DEF GoesByItsName
<1>. QED
  BY <1>3, <1>5, <1>6, OnlyJobIsNamed DEF MInv, SInv, IInv

LEMMA FillKeepsNames ==
  ASSUME OneAtATime, NamesDiffer, SInv, MInv, RecordsStay, NEW p \in Proc, Fill(p)
  PROVE  MInv'
<1>0. PICK j \in Job : j = job[p]
  BY DEF Fill, SInv, IInv, TypeOK
<1>1. /\ j # None /\ j.stage # "check" /\ CarriesAccepted(j) /\ GoesByItsName(j)
  BY <1>0 DEF Fill, SInv, IInv, JobsCarryAccepted, MInv, JobsGoByName
<1>2. PICK k : k = IF j.stage = "current" THEN None
                   ELSE [j EXCEPT !.stage = StageAfter(j), !.open = FALSE]
  OBVIOUS
<1>3. disk' = [disk EXCEPT ![Target(j)] = Content(j)] /\ job' = [job EXCEPT ![p] = k]
  BY <1>0, <1>2 DEF Fill
<1>4. WriteEffect(j, Content(j))
  BY <1>1, <1>3, WritesAreTyped DEF SInv, IInv
<1>5. SnapshotsShowRecords'
  BY <1>1, <1>4, WriteKeepsShown
<1>6. ASSUME k # None PROVE GoesByItsName(k)'
  <2>1. /\ k.stage = StageAfter(j) /\ k.label = j.label
        /\ k.declared = j.declared /\ k.composed = j.composed
        /\ j.stage \in {"record", "inner", "snapshot"}
    BY <1>1, <1>2, <1>6 DEF Job, Stage
  <2>2. /\ j.stage = "record" => StageAfter(j) \in {"inner", "snapshot"}
        /\ j.stage = "inner" => StageAfter(j) = "snapshot"
        /\ j.stage = "snapshot" => StageAfter(j) = "current"
    BY SnapshotStageIsTyped DEF StageAfter
  <2>3. CASE j.stage = "record"
    <3>1. /\ Target(j) = RecordFile(j.tag) /\ Content(j) \in Record
          /\ j.tag \in Tag /\ j.label = j.tag
      BY <1>1, <2>3, ContentIsTyped DEF GoesByItsName
    <3>2. disk'[RecordFile(j.tag)] = Content(j)
      BY <1>4, <3>1 DEF WriteEffect
    <3>3. /\ Content(j).composed = j.composed
          /\ Content(j).print = PrintOf[j.declared]
      BY <2>3 DEF Content
    <3>4. Readable(RecordFile(j.tag))'
      BY <3>1, <3>2, FilesAssumption DEF Readable
    <3>5. \A t \in Tag : j.label \in {t, Restored[t]} => t = j.tag
      BY <3>1 DEF NamesDiffer
    <3>6. ShowsItsRecord(j.label, j.declared, j.composed)'
      BY <3>2, <3>3, <3>4, <3>5 DEF ShowsItsRecord
    <3>. QED
      BY <2>1, <2>2, <2>3, <3>6 DEF GoesByItsName
  <2>4. CASE j.stage = "inner"
    <3>1. ShowsItsRecord(j.label, j.declared, j.composed)'
      BY <1>1, <2>4, ShownStaysShown DEF GoesByItsName
    <3>. QED
      BY <2>1, <2>2, <2>4, <3>1 DEF GoesByItsName
  <2>5. CASE j.stage = "snapshot"
    BY <2>1, <2>2, <2>5 DEF GoesByItsName
  <2>. QED
    BY <2>1, <2>3, <2>4, <2>5
<1>. QED
  BY <1>3, <1>5, <1>6, OnlyJobIsNamed DEF MInv, SInv, IInv

LEMMA NextKeepsNames ==
  ASSUME OneAtATime, NamesDiffer, SInv, IInv', MInv, [Next]_vars
  PROVE  MInv'
<1>0. RecordsStay
  BY NextKeepsHistory DEF StepKeepsHistory
<1>1. CASE UNCHANGED <<disk, job>>
  BY <1>1, UnwrittenKeepsNames
  DEF MInv, JobsGoByName, GoesByItsName, ShowsItsRecord, Readable
<1>2. CASE EditDeclared \/ EditInner
  BY <1>1, <1>2 DEF EditDeclared, EditInner
<1>3. ASSUME NEW patch \in Proposed, NEW accept \in BOOLEAN, Validate(patch, accept)
      PROVE  MInv'
  BY <1>1, <1>3 DEF Validate
<1>4. ASSUME NEW p \in Proc,
             \/ \E tag \in Tag, base \in Base, patch \in Proposed :
                  BeginCommit(p, tag, base, patch)
             \/ CheckFresh(p)
             \/ \E tag \in Tag : BeginRollbackTo(p, tag)
             \/ BeginRestoreDeclared(p)
             \/ Crash(p)
      PROVE  MInv'
  BY <1>4, BeginKeepsNames
<1>5. ASSUME NEW p \in Proc, Truncate(p) PROVE MInv'
  BY <1>0, <1>5, TruncateKeepsNames
<1>6. ASSUME NEW p \in Proc, Fill(p) PROVE MInv'
  BY <1>0, <1>6, FillKeepsNames
<1>7. CASE UNCHANGED vars
  BY <1>1, <1>7 DEF vars
<1>. QED
  BY <1>2, <1>3, <1>4, <1>5, <1>6, <1>7 DEF Next

\* As long as one invocation runs at a time, and no tag has the name of a restored
\* one: the snapshot of a version, committed or restored by a rollback, shows
\* what the record of the version says, wherever invocations die.
THEOREM SnapshotsMatchRecordsAlways ==
  OneAtATime /\ NamesDiffer => (Spec => []SnapshotsMatchRecords)
<1>. SUFFICES ASSUME OneAtATime, NamesDiffer PROVE Spec => []SnapshotsMatchRecords
  OBVIOUS
<1>1. Init => MInv
  <2>. SUFFICES ASSUME Init PROVE MInv
    OBVIOUS
  <2>1. \A f \in File : disk[f] = Absent
    BY DEF Init
  <2>. QED
    BY <2>1, FilesDiffer
    DEF Init, MInv, JobsGoByName, SnapshotsShowRecords, Readable
<1>2. SInv /\ IInv' /\ MInv /\ [Next]_vars => MInv'
  BY NextKeepsNames
<1>3. MInv => SnapshotsMatchRecords
  BY VersionStoreAssumption
  DEF MInv, SnapshotsShowRecords, ShowsItsRecord, SnapshotsMatchRecords
<1>. QED
  BY <1>1, <1>2, <1>3, HistoryInvariant, StoreIsGood, PTL DEF Spec

----------------------------------------------------------------------------
(* Types *)

\* The files of the store and the jobs of all invocations keep their types, wherever
\* an invocation dies.
THEOREM StoreIsTyped == Spec => []TypeOK
<1>1. IInv => TypeOK
  BY DEF IInv
<1>. QED
  BY <1>1, StoreIsGood, PTL

=============================================================================
