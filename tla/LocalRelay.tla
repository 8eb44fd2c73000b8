----------------------------- MODULE LocalRelay -----------------------------
(***************************************************************************)
(* The resumable relay copy (backend/app/transfer/strategies/              *)
(* local_relay.py) and its verification (backend/app/transfer/verifier.py) *)
(* as successive jobs run them against one target directory.               *)
(*                                                                         *)
(* The registry admits one job per target, so jobs follow each other; each *)
(* may be cut off at any await (a lost connection, a cancel, a restart of  *)
(* the backend) and leaves on the target what it wrote.  Meanwhile the     *)
(* source tree is live: files appear, change and vanish between awaits.    *)
(*                                                                         *)
(* A file's version is the second of its last change, so it is its mtime   *)
(* as SFTP reports it; 0 means that the file does not exist.  Content is a *)
(* sequence of chunks, and a chunk is named by the version it was read     *)
(* from.  All jobs copy the same artifact between the same paths: of the   *)
(* five keys of the meta sidecar only size and mtime can differ.           *)
(***************************************************************************)
EXTENDS Naturals, Sequences, FiniteSets

CONSTANTS
  Files,        \* names of the files of the tree
  MaxTime,      \* bound: seconds of the clock
  MaxJobs,      \* bound: jobs that are started
  Size,         \* [1 .. MaxTime -> Nat]: chunks of a version
  FailAt        \* awaits at which a job may be cut off

Versions == 1 .. MaxTime
Version0 == 0 .. MaxTime

ASSUME SizeAssumption == MaxTime \in Nat \ {0} /\ Size \in [Versions -> Nat]
ASSUME RelayAssumption == MaxJobs \in Nat /\ IsFiniteSet(Files)

VARIABLES
  now,       \* the clock, in seconds
  root,      \* "dir", or the one file that is the declared source
  src,       \* [Files -> version on the source]
  tgt,       \* [Files -> file on the target, under its own name]
  partial,   \* [Files -> its .sgc-partial]
  meta,      \* [Files -> its .sgc-meta]
  pc,        \* the await the job is suspended in
  jobs,      \* jobs started so far
  todo,      \* names the current walk has not visited yet
  cur,       \* the file _relay_file is copying, or "none"
  seen,      \* the source_stat of _relay_file
  offset,    \* its resume_from
  handle,    \* the version behind the open reader
  count,     \* the job's files_total, files_done, bytes_total, bytes_done
  changed    \* history: files that changed since the job started

target == <<tgt, partial, meta>>
walk == <<todo, cur, seen, offset, handle>>
vars == <<now, root, src, target, pc, jobs, walk, count, changed>>

(* A stat result; what does not exist has size 0 and mtime 0. *)
Stat(v) == [size |-> IF v = 0 THEN 0 ELSE Size[v], mtime |-> v]
NoStat == Stat(0)
Stats == {Stat(v) : v \in Version0}

(* A file on the target, its mtime, and the time of its last write (the    *)
(* mtime until set_mtime changes that).                                    *)
File(data, time) == [data |-> data, mtime |-> time, written |-> time]
NoFile == File(<<>>, 0)
FileStates == [data : Seq(Versions), mtime : Version0, written : Version0]
Exists(file) == file.mtime > 0

Content(v) == [i \in 1 .. Stat(v).size |-> v]

PC == {"idle", "counting", "walking", "stat", "meta", "metaWrite", "open",
       "copying", "renaming", "unmeta", "stamping", "verifying",
       "rewalking", "completed", "failed"}

AtRest == pc \in {"idle", "completed", "failed"}

Existing == {f \in Files : src[f] # 0}

(* The locals of _relay_file go out of scope. *)
LeaveFile == cur' = "none" /\ seen' = NoStat /\ offset' = 0 /\ handle' = 0

ZeroCount == [filesTotal |-> 0, filesDone |-> 0, bytesTotal |-> 0, bytesDone |-> 0]

-----------------------------------------------------------------------------
(* The source tree and the clock (external) *)

Tick == now < MaxTime /\ now' = now + 1
        /\ UNCHANGED <<root, src, target, pc, jobs, walk, count, changed>>

(* A file is created or changed, at most once a second: otherwise size and *)
(* mtime could not tell the versions apart.  A change in place shows       *)
(* through a reader that is already open, a replacement does not.          *)
Change(f, inPlace) ==
  /\ src[f] < now
  /\ src' = [src EXCEPT ![f] = now]
  /\ handle' = IF inPlace /\ cur = f /\ handle = src[f] /\ handle # 0
               THEN now ELSE handle
  /\ changed' = changed \cup {f}
  /\ UNCHANGED <<now, root, target, pc, jobs, todo, cur, seen, offset, count>>

Vanish(f) ==
  /\ src[f] # 0 /\ src[f] < now
  /\ src' = [src EXCEPT ![f] = 0]
  /\ changed' = changed \cup {f}
  /\ UNCHANGED <<now, root, target, pc, jobs, walk, count>>

-----------------------------------------------------------------------------
(* relay_transfer *)

(* Mutant of is_up_to_date: the mtimes are not compared. *)
UpToDateBySize(s, file) == Exists(file) /\ Len(file.data) = s.size

is_up_to_date(s, file) ==
  Exists(file) /\ Len(file.data) = s.size /\ s.mtime > 0 /\ file.mtime = s.mtime

(* A new job.  The root is a directory, which is counted first, or a file: *)
(* absent (an error), already up to date (done), or to be copied.          *)
relay_transfer ==
  /\ AtRest
  /\ jobs < MaxJobs
  /\ jobs' = jobs + 1
  /\ changed' = {}
  /\ \/ /\ root = "dir"
        /\ pc' = "counting" /\ todo' = Existing /\ count' = ZeroCount
        /\ UNCHANGED cur
     \/ /\ root # "dir" /\ src[root] = 0
        /\ pc' = "failed" /\ count' = ZeroCount
        /\ UNCHANGED <<todo, cur>>
     \/ /\ root # "dir" /\ src[root] # 0
        /\ LET s == Stat(src[root])
               skip == is_up_to_date(s, tgt[root])
           IN /\ pc' = IF skip THEN "verifying" ELSE "stat"
              /\ cur' = IF skip THEN "none" ELSE root
              /\ count' = [filesTotal |-> 1, filesDone |-> IF skip THEN 1 ELSE 0,
                           bytesTotal |-> s.size,
                           bytesDone |-> IF skip THEN s.size ELSE 0]
        /\ UNCHANGED todo
  /\ UNCHANGED <<now, root, src, target, seen, offset, handle>>

(* _count_tree, one lstat at a time.  At the end the names are listed      *)
(* again, for the walk that copies.                                        *)
count_tree ==
  /\ pc = "counting"
  /\ \/ \E f \in todo :
          /\ todo' = todo \ {f}
          /\ count' = IF src[f] = 0 THEN count
                      ELSE [count EXCEPT !.filesTotal = @ + 1,
                                         !.bytesTotal = @ + Stat(src[f]).size]
          /\ UNCHANGED pc
     \/ /\ todo = {}
        /\ todo' = Existing
        /\ pc' = "walking"
        /\ UNCHANGED count
  /\ UNCHANGED <<now, root, src, target, jobs, cur, seen, offset, handle, changed>>

(* _relay_dir: the next name.  Vanished files are passed over, files that  *)
(* are up to date are counted as done, the others are copied.              *)
relay_dir ==
  /\ pc = "walking"
  /\ \/ \E f \in todo :
          LET s == Stat(src[f])
              skip == is_up_to_date(s, tgt[f])
          IN /\ todo' = todo \ {f}
             /\ pc' = IF src[f] = 0 \/ skip THEN "walking" ELSE "stat"
             /\ cur' = IF src[f] = 0 \/ skip THEN cur ELSE f
             /\ count' = IF src[f] # 0 /\ skip
                         THEN [count EXCEPT !.filesDone = @ + 1,
                                            !.bytesDone = @ + s.size]
                         ELSE count
     \/ /\ todo = {}
        /\ pc' = "verifying"
        /\ UNCHANGED <<todo, cur, count>>
  /\ UNCHANGED <<now, root, src, target, jobs, seen, offset, handle, changed>>

-----------------------------------------------------------------------------
(* _relay_file *)

(* Mutant of resume_offset: the sidecar is not consulted. *)
ResumeBySize(f, s) ==
  IF Exists(partial[f]) /\ Len(partial[f].data) <= s.size
  THEN Len(partial[f].data) ELSE 0

(* _resume_offset: what may be kept of the partial of f, when the source   *)
(* has stat s.                                                             *)
resume_offset(f, s) ==
  IF /\ Exists(partial[f]) /\ Len(partial[f].data) > 0
     /\ meta[f] = s
     /\ Len(partial[f].data) <= s.size
  THEN Len(partial[f].data) ELSE 0

(* Mutant of StatSource: resumed bytes do not enter bytes_done. *)
StatSourceUncounted ==
  /\ pc = "stat"
  /\ seen' = Stat(src[cur])
  /\ offset' = resume_offset(cur, seen')
  /\ pc' = IF offset' > 0 THEN "open" ELSE "meta"
  /\ UNCHANGED <<now, root, src, target, jobs, todo, cur, handle, count, changed>>

StatSource ==
  /\ pc = "stat"
  /\ seen' = Stat(src[cur])
  /\ offset' = resume_offset(cur, seen')
  /\ pc' = IF offset' > 0 THEN "open" ELSE "meta"
  /\ count' = [count EXCEPT !.bytesDone = @ + offset']
  /\ UNCHANGED <<now, root, src, target, jobs, todo, cur, handle, changed>>

(* _write_meta: the sidecar is truncated, then written.  A truncated one   *)
(* does not parse and counts as absent.                                    *)
TruncateMeta ==
  /\ pc = "meta"
  /\ meta' = [meta EXCEPT ![cur] = NoStat]
  /\ pc' = "metaWrite"
  /\ UNCHANGED <<now, root, src, tgt, partial, jobs, walk, count, changed>>

WriteMeta ==
  /\ pc = "metaWrite"
  /\ meta' = [meta EXCEPT ![cur] = seen]
  /\ pc' = "open"
  /\ UNCHANGED <<now, root, src, tgt, partial, jobs, walk, count, changed>>

(* The reader, which fails if the file is gone, then the writer: "wb"      *)
(* truncates the partial unless the copy resumes.                          *)
OpenFiles ==
  /\ pc = "open"
  /\ \/ /\ src[cur] = 0
        /\ pc' = "failed"
        /\ LeaveFile /\ todo' = {}
        /\ UNCHANGED partial
     \/ /\ src[cur] # 0
        /\ handle' = src[cur]
        /\ partial' = IF offset > 0 THEN partial
                      ELSE [partial EXCEPT ![cur] = File(<<>>, now)]
        /\ pc' = "copying"
        /\ UNCHANGED <<todo, cur, seen, offset>>
  /\ UNCHANGED <<now, root, src, tgt, meta, jobs, count, changed>>

(* One chunk of the open file, or its end. *)
CopyChunk ==
  /\ pc = "copying"
  /\ IF Len(partial[cur].data) < Stat(handle).size
     THEN /\ partial' = [partial EXCEPT ![cur] = File(Append(@.data, handle), now)]
          /\ count' = [count EXCEPT !.bytesDone = @ + 1]
          /\ UNCHANGED pc
     ELSE pc' = "renaming" /\ UNCHANGED <<partial, count>>
  /\ UNCHANGED <<now, root, src, tgt, meta, jobs, walk, changed>>

(* posix-rename replaces the target at once; a server without it gets a    *)
(* remove first, and the job is back here for the plain rename.            *)
Rename ==
  /\ pc = "renaming"
  /\ \/ /\ tgt' = [tgt EXCEPT ![cur] = partial[cur]]
        /\ partial' = [partial EXCEPT ![cur] = NoFile]
        /\ pc' = "unmeta"
     \/ /\ Exists(tgt[cur])
        /\ tgt' = [tgt EXCEPT ![cur] = NoFile]
        /\ UNCHANGED <<partial, pc>>
  /\ UNCHANGED <<now, root, src, meta, jobs, walk, count, changed>>

(* Best effort: the exceptions of both calls are suppressed. *)
RemoveMeta ==
  /\ pc = "unmeta"
  /\ meta' \in {meta, [meta EXCEPT ![cur] = NoStat]}
  /\ pc' = "stamping"
  /\ UNCHANGED <<now, root, src, tgt, partial, jobs, walk, count, changed>>

(* Mutant of StampMtime: the mtime the source has after the copy instead   *)
(* of before.                                                              *)
StampLate ==
  /\ pc = "stamping"
  /\ tgt' = IF src[cur] = 0 THEN tgt ELSE [tgt EXCEPT ![cur].mtime = src[cur]]
  /\ count' = [count EXCEPT !.filesDone = @ + 1]
  /\ pc' = IF root = "dir" THEN "walking" ELSE "verifying"
  /\ LeaveFile
  /\ UNCHANGED <<now, root, src, partial, meta, jobs, todo, changed>>

StampMtime ==
  /\ pc = "stamping"
  /\ \/ seen.mtime > 0 /\ tgt' = [tgt EXCEPT ![cur].mtime = seen.mtime]
     \/ seen.mtime = 0 /\ UNCHANGED tgt
     \/ seen.mtime > 0 /\ UNCHANGED tgt  \* set_mtime failed
  /\ count' = [count EXCEPT !.filesDone = @ + 1]
  /\ pc' = IF root = "dir" THEN "walking" ELSE "verifying"
  /\ LeaveFile
  /\ UNCHANGED <<now, root, src, partial, meta, jobs, todo, changed>>

-----------------------------------------------------------------------------
(* quick_verify *)

(* The job's own counters agree. *)
CountersAgree ==
  count.filesDone = count.filesTotal /\ count.bytesDone = count.bytesTotal

(* A single file: the size counted at the start, and not empty.  A tree:   *)
(* counter parity, else its files are looked at one by one.                *)
quick_verify ==
  /\ pc = "verifying"
  /\ \/ /\ root # "dir" /\ src[root] # 0
        /\ pc' = IF /\ Exists(tgt[root])
                    /\ Len(tgt[root].data) = count.bytesTotal
                    /\ count.bytesTotal > 0
                 THEN "completed" ELSE "failed"
        /\ UNCHANGED todo
     \/ /\ root # "dir" /\ src[root] = 0  \* gone since: there is no tree to walk
        /\ pc' = IF Exists(tgt[root]) /\ CountersAgree THEN "completed" ELSE "failed"
        /\ UNCHANGED todo
     \/ /\ root = "dir" /\ CountersAgree
        /\ pc' = "completed"
        /\ UNCHANGED todo
     \/ /\ root = "dir" /\ ~CountersAgree
        /\ pc' = "rewalking"
        /\ todo' = Existing
  /\ UNCHANGED <<now, root, src, target, jobs, cur, seen, offset, handle, count, changed>>

(* Every file that still exists on the source has its size on the target.  *)
first_missing_target_file ==
  /\ pc = "rewalking"
  /\ \/ \E f \in todo :
          LET ok == \/ src[f] = 0
                    \/ /\ Exists(tgt[f])
                       /\ Len(tgt[f].data) = Stat(src[f]).size
          IN /\ pc' = IF ok THEN "rewalking" ELSE "failed"
             /\ todo' = IF ok THEN todo \ {f} ELSE {}
     \/ /\ todo = {}
        /\ pc' = "completed"
        /\ UNCHANGED todo
  /\ UNCHANGED <<now, root, src, target, jobs, cur, seen, offset, handle, count, changed>>

-----------------------------------------------------------------------------
(* Mutant of Fail: scratch files are cleaned up on failure. *)
FailCleansUp ==
  /\ pc \in FailAt
  /\ ~AtRest
  /\ pc' = "failed"
  /\ partial' = IF cur = "none" THEN partial ELSE [partial EXCEPT ![cur] = NoFile]
  /\ LeaveFile /\ todo' = {}
  /\ UNCHANGED <<now, root, src, tgt, meta, jobs, count, changed>>

(* The job is cut off: a cancel, a lost connection, the end of the backend. *)
Fail ==
  /\ pc \in FailAt
  /\ ~AtRest
  /\ pc' = "failed"
  /\ LeaveFile /\ todo' = {}
  /\ UNCHANGED <<now, root, src, target, jobs, count, changed>>

Init ==
  /\ now = 1
  /\ root \in Files \cup {"dir"}
  /\ src \in [Files -> {0, 1}]
  /\ tgt = [f \in Files |-> NoFile]
  /\ partial = [f \in Files |-> NoFile]
  /\ meta = [f \in Files |-> NoStat]
  /\ pc = "idle"
  /\ jobs = 0
  /\ todo = {}
  /\ cur = "none"
  /\ seen = NoStat
  /\ offset = 0
  /\ handle = 0
  /\ count = ZeroCount
  /\ changed = {}

Next ==
  \/ Tick
  \/ \E f \in Files : Vanish(f) \/ \E inPlace \in BOOLEAN : Change(f, inPlace)
  \/ relay_transfer \/ count_tree \/ relay_dir
  \/ StatSource \/ TruncateMeta \/ WriteMeta \/ OpenFiles \/ CopyChunk
  \/ Rename \/ RemoveMeta \/ StampMtime
  \/ quick_verify \/ first_missing_target_file \/ Fail

Spec == Init /\ [][Next]_vars

-----------------------------------------------------------------------------
(* Invariants *)

(* Every variable keeps its type, and the counters count up. *)
TypeOK ==
  /\ now \in Versions
  /\ root \in Files \cup {"dir"}
  /\ src \in [Files -> Version0]
  /\ changed \subseteq Files
  /\ tgt \in [Files -> FileStates] /\ partial \in [Files -> FileStates]
  /\ meta \in [Files -> Stats]
  /\ pc \in PC
  /\ jobs \in 0 .. MaxJobs
  /\ todo \subseteq Files
  /\ cur \in Files \cup {"none"}
  /\ seen \in Stats
  /\ offset \in Nat
  /\ handle \in Version0
  /\ count \in [filesTotal : Nat, filesDone : Nat, bytesTotal : Nat, bytesDone : Nat]

IsPrefixOf(data, v) ==
  Len(data) <= Stat(v).size /\ \A i \in DOMAIN data : data[i] = v

(* local_relay.py: a partial is resumed only if it is "a prefix of the     *)
(* source", and a changed source "never appends onto stale bytes": while   *)
(* the source is what _relay_file saw, the partial is a prefix of it.      *)
ResumeOntoPrefix ==
  pc = "copying" /\ Stat(handle) = seen => IsPrefixOf(partial[cur].data, handle)

(* The mtime of f on the target is its source's by copy and not by         *)
(* coincidence: the source did not change in the second of the last write. *)
NoCoincidence(f) == tgt[f].written # src[f]

(* The incremental skip (_is_up_to_date: "the target file already carries  *)
(* this source file"): between jobs, a target file that matches its source *)
(* in size and mtime has the source's content, even where set_mtime failed *)
(* or the source changed under the copy.                                   *)
SkipIsSound ==
  AtRest => \A f \in Files :
    /\ src[f] # 0 /\ NoCoincidence(f)
    /\ is_up_to_date(Stat(src[f]), tgt[f])
    => tgt[f].data = Content(src[f])

(* A job that completed has copied every file of the tree that has not     *)
(* changed since the job started, though verification looks at sizes only. *)
CompletedMeansCopied ==
  pc = "completed" => \A f \in Files :
    /\ root \in {f, "dir"}
    /\ src[f] # 0 /\ f \notin changed /\ NoCoincidence(f)
    => tgt[f].data = Content(src[f])

(* When the source does not change while a job runs, its counters add up   *)
(* at the end, through resumed, skipped and copied files alike.            *)
QuietJobAddsUp ==
  pc = "verifying" /\ changed = {} => CountersAgree

(* Copy/update never loses a file: a target file once there is missing     *)
(* only while its replacement is staged next to it.                        *)
TargetOrStaged ==
  [][\A f \in Files : Exists(tgt[f]) \/ Exists(partial[f]) =>
       Exists(tgt'[f]) \/ Exists(partial'[f])]_vars
=============================================================================
