---------------------------- MODULE VersionStore ----------------------------
(***************************************************************************)
(* The directory of topology versions and the command invocations that     *)
(* write it: optimize validate, optimize commit, optimize rollback.        *)
(*                                                                         *)
(* Every file is written by Path.write_text, which truncates and then      *)
(* fills it; an invocation can stop (an exception, a kill) at any point    *)
(* in between.  Invocations share nothing but the files, and several may   *)
(* run at once.  The topology files are edited by hand between commands.   *)
(***************************************************************************)
EXTENDS Naturals

CONSTANTS
  Proc,             \* invocations that may be under way at the same time
  Tag,              \* version tags a commit may be given
  Base,             \* what commit may be told its base version is
  Label,            \* names of snapshots: the tags and the "-restored" names
  Restored,         \* the name a rollback to a tag gives: "v2" -> "v2-restored"
  DeclaredRestored, \* "declared-restored"
  Declared,         \* contents the declared topology file may have
  FP,               \* fingerprints
  PrintOf,          \* declared_fingerprint
  NodesOf,          \* the tools of a declared topology
  CompositesOf,     \* the composites among them
  Inner,            \* contents the inner topology file may have
  Patch,            \* patches: the sets of disabled tools and edges
  Proposed,         \* the patches candidates files may hold
  None,             \* no value
  Absent, Torn      \* a file that does not exist; one that cannot be parsed

ASSUME VersionStoreAssumption ==
  /\ Tag \subseteq Label
  /\ Base \subseteq Tag \cup {None}
  /\ Restored \in [Tag -> Label]
  /\ DeclaredRestored \in Label
  /\ PrintOf \in [Declared -> FP]
  /\ \A d \in Declared : CompositesOf[d] \subseteq NodesOf[d]
  /\ {} \in Patch
  /\ Proposed \subseteq Patch
  \* equal fingerprints: the same nodes, layers, capabilities and edges
  /\ \A d, e \in Declared : PrintOf[d] = PrintOf[e] => NodesOf[d] = NodesOf[e]

VARIABLES
  declared,   \* the declared topology file
  inner,      \* the inner topology file its composites refer to
  verdict,    \* the verdict file the last validate wrote
  disk,       \* the versions directory: file -> content
  job,        \* the invocation each process runs, or None
  accepted    \* history: the <<patch, fingerprint>> pairs validate accepted

vars == <<declared, inner, verdict, disk, job, accepted>>

----------------------------------------------------------------------------
(* Files and their contents *)

RecordFile(tag)     == <<"record", tag>>        \* {version}.json
SnapshotFile(label) == <<"snapshot", label>>    \* {version}.topology.json
InnerFile           == <<"inner", None>>        \* {composite}_inner.json
CurrentFile         == <<"current", None>>      \* current.json

File == {RecordFile(t) : t \in Tag} \cup {SnapshotFile(l) : l \in Label}
          \cup {InnerFile, CurrentFile}

\* The formats: a record says what a version withholds and of what; a snapshot
\* stands for the topology file that Topology.tla's Export makes of the two.
Record   == [base: Base \cup {None}, print: FP, patch: Patch, composed: Patch]
Snapshot == [declared: Declared, inner: Inner, patch: Patch]
Pointer  == [version: Label]
Copy     == [inner: Inner]
Verdict  == [accept: BOOLEAN, patch: Patch, print: FP]

ASSUME FilesAssumption ==
  /\ Absent # Torn
  /\ \A x \in {Absent, Torn} : x \notin Record /\ x \notin Snapshot
  /\ None \notin Verdict

Readable(file) == disk[file] \notin {Absent, Torn}

\* apply_patch refuses a patch that disables every node.
Applicable(d, patch) == ~(NodesOf[d] \subseteq patch)

\* What an invocation is about to write, file by file.  A commit writes the
\* record, then the inner copy if there is a composite, then the snapshot,
\* then the pointer; a rollback writes no record.
Stage == {"check", "record", "inner", "snapshot", "current"}

Job == [stage: Stage, open: BOOLEAN, tag: Tag \cup {None}, label: Label,
        base: Base \cup {None}, declared: Declared, inner: Inner,
        patch: Patch, composed: Patch]

ASSUME JobAssumption == None \notin Job

\* Faulty form: the snapshot goes into the file of the record.
TargetOneFile(j) ==
  CASE j.stage = "record"   -> RecordFile(j.tag)
    [] j.stage = "inner"    -> InnerFile
    [] j.stage = "snapshot" /\ j.tag \in Tag -> RecordFile(j.tag)
    [] OTHER                -> CurrentFile

Target(j) ==
  CASE j.stage = "record"   -> RecordFile(j.tag)
    [] j.stage = "inner"    -> InnerFile
    [] j.stage = "snapshot" -> SnapshotFile(j.label)
    [] OTHER                -> CurrentFile

\* Faulty form: the record names the search space found at the time of writing.
ContentPrintedLate(j) ==
  CASE j.stage = "record"   -> [base |-> j.base, print |-> PrintOf[declared],
                                patch |-> j.patch, composed |-> j.composed]
    [] j.stage = "inner"    -> [inner |-> j.inner]
    [] j.stage = "snapshot" -> [declared |-> j.declared, inner |-> j.inner,
                                patch |-> j.composed]
    [] OTHER                -> [version |-> j.label]

Content(j) ==
  CASE j.stage = "record"   -> [base |-> j.base, print |-> PrintOf[j.declared],
                                patch |-> j.patch, composed |-> j.composed]
    [] j.stage = "inner"    -> [inner |-> j.inner]
    [] j.stage = "snapshot" -> [declared |-> j.declared, inner |-> j.inner,
                                patch |-> j.composed]
    [] OTHER                -> [version |-> j.label]

\* _write_snapshot copies the inner topologies of composites first, of those that
\* the patch leaves.
SnapshotStage(d, patch) == IF CompositesOf[d] \subseteq patch THEN "snapshot" ELSE "inner"

\* Faulty form: the pointer is moved before the snapshot is written.
StageAfterPointerFirst(j) ==
  CASE j.stage = "record"   -> "current"
    [] j.stage = "inner"    -> "snapshot"
    [] OTHER                -> "current"

StageAfter(j) ==
  CASE j.stage = "record"   -> SnapshotStage(j.declared, j.composed)
    [] j.stage = "inner"    -> "snapshot"
    [] OTHER                -> "current"

----------------------------------------------------------------------------
Init ==
  /\ declared \in Declared
  /\ inner \in Inner
  /\ verdict = None
  /\ disk = [f \in File |-> Absent]
  /\ job = [p \in Proc |-> None]
  /\ accepted = {}

\* The user edits the declared topology, or the inner one.
EditDeclared ==
  /\ declared' \in Declared \ {declared}
  /\ UNCHANGED <<inner, verdict, disk, job, accepted>>

EditInner ==
  /\ inner' \in Inner \ {inner}
  /\ UNCHANGED <<declared, verdict, disk, job, accepted>>

\* pipeline.validate: the three gates decide; what they decide is not modelled
\* here, so either verdict may come out.  apply_patch raises on a hollow patch.
Validate(patch, accept) ==
  /\ Applicable(declared, patch)
  /\ verdict' = [accept |-> accept, patch |-> patch, print |-> PrintOf[declared]]
  /\ accepted' = IF accept THEN accepted \cup {<<patch, PrintOf[declared]>>}
                 ELSE accepted
  /\ UNCHANGED <<declared, inner, disk, job>>

\* commit_patch on initial_version: the base version has the empty patch, whatever
\* base names, so that a second round does not carry the first one's patch.
ComposedWithBase(base, patch) == {} \cup patch

\* commit, up to its gates: the topology, the patch and the verdict are read.
\* A verdict that is missing, negative, or about another patch or another
\* search space refuses the commit, which then changes nothing.
GatesPass(patch) ==
  /\ verdict # None
  /\ verdict.accept
  /\ verdict.patch = patch
  /\ verdict.print = PrintOf[declared]

BeginCommit(p, tag, base, patch) ==
  /\ job[p] = None
  /\ GatesPass(patch)
  /\ job' = [job EXCEPT ![p] =
               [stage |-> "check", open |-> FALSE, tag |-> tag, label |-> tag,
                base |-> base, declared |-> declared, inner |-> inner,
                patch |-> patch, composed |-> ComposedWithBase(base, patch)]]
  /\ UNCHANGED <<declared, inner, verdict, disk, accepted>>

\* Faulty form: the version goes straight to its snapshot, without a record.
CheckFreshNoRecord(p) ==
  LET j == job[p] IN
  /\ j # None /\ j.stage = "check"
  /\ job' = [job EXCEPT ![p] =
               IF disk[RecordFile(j.tag)] = Absent /\ Applicable(j.declared, j.composed)
               THEN [j EXCEPT !.stage = SnapshotStage(j.declared, j.composed)]
               ELSE None]
  /\ UNCHANGED <<declared, inner, verdict, disk, accepted>>

\* record_path.exists(): an existing record of that name refuses the commit,
\* and so does a patch that leaves nothing active.
CheckFresh(p) ==
  LET j == job[p] IN
  /\ j # None /\ j.stage = "check"
  /\ job' = [job EXCEPT ![p] =
               IF disk[RecordFile(j.tag)] = Absent /\ Applicable(j.declared, j.composed)
               THEN [j EXCEPT !.stage = "record"]
               ELSE None]
  /\ UNCHANGED <<declared, inner, verdict, disk, accepted>>

\* Faulty form: a record written against another search space is replayed.
BeginRollbackToAnySpace(p, tag) ==
  LET record == disk[RecordFile(tag)] IN
  /\ job[p] = None
  /\ Readable(RecordFile(tag))
  /\ Applicable(declared, record.composed)
  /\ job' = [job EXCEPT ![p] =
               [stage |-> SnapshotStage(declared, record.composed), open |-> FALSE,
                tag |-> tag, label |-> Restored[tag], base |-> record.base,
                declared |-> declared, inner |-> inner,
                patch |-> record.patch, composed |-> record.composed]]
  /\ UNCHANGED <<declared, inner, verdict, disk, accepted>>

\* Faulty form: the declared topology is restored under the name of the tag.
BeginRollbackToNothing(p, tag) ==
  LET record == disk[RecordFile(tag)] IN
  /\ job[p] = None
  /\ Readable(RecordFile(tag))
  /\ record.print = PrintOf[declared]
  /\ job' = [job EXCEPT ![p] =
               [stage |-> SnapshotStage(declared, {}), open |-> FALSE,
                tag |-> tag, label |-> Restored[tag], base |-> record.base,
                declared |-> declared, inner |-> inner,
                patch |-> {}, composed |-> {}]]
  /\ UNCHANGED <<declared, inner, verdict, disk, accepted>>

\* rollback --to tag: the record must be there, readable, and written against
\* the same search space; its composed patch is applied to the declared view.
BeginRollbackTo(p, tag) ==
  LET record == disk[RecordFile(tag)] IN
  /\ job[p] = None
  /\ Readable(RecordFile(tag))
  /\ record.print = PrintOf[declared]
  /\ Applicable(declared, record.composed)
  /\ job' = [job EXCEPT ![p] =
               [stage |-> SnapshotStage(declared, record.composed), open |-> FALSE,
                tag |-> tag, label |-> Restored[tag], base |-> record.base,
                declared |-> declared, inner |-> inner,
                patch |-> record.patch, composed |-> record.composed]]
  /\ UNCHANGED <<declared, inner, verdict, disk, accepted>>

\* rollback without --to: the declared topology itself.
BeginRestoreDeclared(p) ==
  /\ job[p] = None
  /\ job' = [job EXCEPT ![p] =
               [stage |-> SnapshotStage(declared, {}), open |-> FALSE,
                tag |-> None, label |-> DeclaredRestored, base |-> None,
                declared |-> declared, inner |-> inner,
                patch |-> {}, composed |-> {}]]
  /\ UNCHANGED <<declared, inner, verdict, disk, accepted>>

\* write_text opens and truncates the file; the inner topology is read just
\* before its copy is opened.
Truncate(p) ==
  LET j == job[p] IN
  /\ j # None /\ j.stage # "check" /\ ~j.open
  /\ disk' = [disk EXCEPT ![Target(j)] = Torn]
  /\ job' = [job EXCEPT ![p] =
               [j EXCEPT !.open = TRUE,
                         !.inner = IF j.stage = "inner" THEN inner ELSE @]]
  /\ UNCHANGED <<declared, inner, verdict, accepted>>

\* ... and fills it.  The pointer is the last file of every invocation.
Fill(p) ==
  LET j == job[p] IN
  /\ j # None /\ j.stage # "check" /\ j.open
  /\ disk' = [disk EXCEPT ![Target(j)] = Content(j)]
  /\ job' = [job EXCEPT ![p] =
               IF j.stage = "current" THEN None
               ELSE [j EXCEPT !.stage = StageAfter(j), !.open = FALSE]]
  /\ UNCHANGED <<declared, inner, verdict, accepted>>

\* The invocation dies: killed, or an OSError or CommitGateError escapes from
\* one of its writes.  Nothing is undone.
Crash(p) ==
  /\ job[p] # None
  /\ job' = [job EXCEPT ![p] = None]
  /\ UNCHANGED <<declared, inner, verdict, disk, accepted>>

Next ==
  \/ EditDeclared
  \/ EditInner
  \/ \E patch \in Proposed, accept \in BOOLEAN : Validate(patch, accept)
  \/ \E p \in Proc :
       \/ \E tag \in Tag, base \in Base, patch \in Proposed :
            BeginCommit(p, tag, base, patch)
       \/ CheckFresh(p)
       \/ \E tag \in Tag : BeginRollbackTo(p, tag)
       \/ BeginRestoreDeclared(p)
       \/ Truncate(p)
       \/ Fill(p)
       \/ Crash(p)

Spec == Init /\ [][Next]_vars

----------------------------------------------------------------------------
(* Properties *)

\* Every file holds nothing, a torn write, or a value of its own format.
TypeOK ==
  /\ declared \in Declared
  /\ inner \in Inner
  /\ verdict \in Verdict \cup {None}
  /\ job \in [Proc -> Job \cup {None}]
  /\ accepted \subseteq Patch \X FP
  /\ disk = [f \in File |-> disk[f]]
  /\ \A t \in Tag : disk[RecordFile(t)] \in Record \cup {Absent, Torn}
  /\ \A l \in Label : disk[SnapshotFile(l)] \in Snapshot \cup {Absent, Torn}
  /\ disk[InnerFile] \in Copy \cup {Absent, Torn}
  /\ disk[CurrentFile] \in Pointer \cup {Absent, Torn}

\* Whatever is edited, validated again or interrupted in between, no version
\* record exists whose patch was not accepted against the very search space
\* the record names (commit: the ACCEPT record is a hard gate).
RecordsAreAccepted ==
  \A t \in Tag : Readable(RecordFile(t)) =>
    <<disk[RecordFile(t)].patch, disk[RecordFile(t)].print>> \in accepted

\* No snapshot, committed or restored, withholds anything from a declared
\* topology unless exactly that was accepted for that topology's search space.
SnapshotsAreAccepted ==
  \A l \in Label : Readable(SnapshotFile(l)) =>
    LET s == disk[SnapshotFile(l)]
    IN  s.patch = {} \/ <<s.patch, PrintOf[s.declared]>> \in accepted

\* Nothing is kept that was not accepted.
OnlyAcceptedIsKept == RecordsAreAccepted /\ SnapshotsAreAccepted

\* The pointer never runs ahead of the snapshot it names.
CurrentHasSnapshot ==
  Readable(CurrentFile) => disk[SnapshotFile(disk[CurrentFile].version)] # Absent

\* Both hold whatever runs concurrently: neither gate nor pointer is broken by two
\* invocations that pass the check of one tag together.
StoreIsSound == OnlyAcceptedIsKept /\ CurrentHasSnapshot

\* A record that is on disk can be replayed whenever the declared topology has
\* the fingerprint it was written against: apply_patch will not refuse it.
RecordsReplay ==
  \A t \in Tag :
    /\ Readable(RecordFile(t))
    /\ disk[RecordFile(t)].print = PrintOf[declared]
    => Applicable(declared, disk[RecordFile(t)].composed)

\* rollback: "record replay; history untouched" and commit: "topology versions
\* are immutable".  A record once written is never written again.
HistoryUntouched ==
  [][\A t \in Tag : Readable(RecordFile(t)) =>
       disk'[RecordFile(t)] = disk[RecordFile(t)]]_vars

\* The snapshot of a committed version shows what its record says, and the
\* snapshot of a replayed version what the replayed record says.
SnapshotsMatchRecords ==
  \A t \in Tag :
    /\ (Readable(RecordFile(t)) /\ Readable(SnapshotFile(t)))
         => disk[SnapshotFile(t)].patch = disk[RecordFile(t)].composed
    /\ Readable(SnapshotFile(Restored[t]))
         => /\ Readable(RecordFile(t))
            /\ disk[SnapshotFile(Restored[t])].patch = disk[RecordFile(t)].composed
            /\ PrintOf[disk[SnapshotFile(Restored[t])].declared] = disk[RecordFile(t)].print

\* The store implements VersionHistory: with one invocation at a time, and
\* interrupted anywhere, whatever can be read through current.json withholds
\* what some write-once record says, or nothing.
RecordedPatch(t) ==
  IF Readable(RecordFile(t)) THEN disk[RecordFile(t)].composed ELSE None

CurrentPatch ==
  IF /\ Readable(CurrentFile)
     /\ Readable(SnapshotFile(disk[CurrentFile].version))
  THEN disk[SnapshotFile(disk[CurrentFile].version)].patch
  ELSE None

Promise ==
  INSTANCE VersionHistory WITH
    Nothing <- {},
    history <- [t \in Tag |-> RecordedPatch(t)],
    current <- CurrentPatch

KeepsVersionHistory == Promise!Spec

=============================================================================
