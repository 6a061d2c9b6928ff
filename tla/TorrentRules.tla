---------------------------- MODULE TorrentRules ----------------------------
(***************************************************************************)
(* What one iteration of a torrent loop decides about one torrent: the     *)
(* seeding limits, the hit-and-run obligations, whether it is left alone,  *)
(* the first of the ordered rules of _process_single_torrent whose guard   *)
(* holds, the batch queue its handler puts the hash in, and what is made   *)
(* of its files.                                                           *)
(*                                                                         *)
(* A torrent t is the record the loop sees, its clocks and percentages     *)
(* already compared with their thresholds, and what the worker remembers   *)
(* of its hash; s holds the settings of the Arr and k those of the         *)
(* torrent's most important tracker.                                       *)
(***************************************************************************)
EXTENDS Integers, Sequences

\* qBittorrent's states, by the groups the code asks for.
Stuck == {"metaDL", "forcedMetaDL"}
Seeding == {"uploading", "stalledUP", "queuedUP"}
Complete == Seeding \union {"pausedUP"}
Stopped == {"stoppedDL", "stoppedUP"}
Untouched == {"forcedDL", "forcedUP", "checkingUP", "checkingDL",
              "checkingResumeData", "allocating", "moving", "queuedDL"}
Downloading == Stuck \union {"downloading", "stalledDL", "checkingDL", "pausedDL",
                             "stoppedDL", "queuedDL", "forcedDL"}
States == Complete \union Stopped \union Untouched \union Downloading
          \union {"error", "missingFiles", "unknown"}

\* qBitrr-ignored, -free_space_paused, -allowed_stalled, -imported and -allowed_seeding.
Tags == {"ignored", "paused", "stalled", "imported", "seeding"}

Flags == {"super",     \* super_seeding
          "known",     \* the trackers could be read
          "dead",      \* the hit-and-run tracker calls the torrent unregistered
          "idle",      \* in stalledUP for the seeding time limit, at the first look
          "idleSoon",  \* and at the second look, a moment later
          "missing",   \* an ERROR whose text speaks of missing files
          "cfUnmet",   \* custom_format_unmet_search, and the score is too low
          "young",     \* added less than IgnoreTorrentsYoungerThan ago
          "quiet",     \* no activity for as long
          "expired",   \* the stalled delay has run out
          "lowAvail",  \* availability below 1
          "lowShare",  \* progress up to MaximumDeletablePercentage
          "silent",    \* no activity for the maximum ETA
          "slow",      \* the ETA exceeds the maximum
          "settled",   \* completed more than a minute ago, with a path
          "cleaned", "special", "skipped", "scanned"}  \* what the worker remembers

\* The progress is a percentage.
Torrent == [state: States, cat: {"own", "failed", "recheck"}, tags: SUBSET Tags,
            progress: 0 .. 100, ratio: Nat, seeded: Nat,
            ratioLimit: Int, timeLimit: Int, is: SUBSET Flags]

Unfinished(t) == t.progress # 100

-----------------------------------------------------------------------------
(* Seeding limits. *)

Unset == -5

PositiveOr(x) == IF x > 0 THEN x ELSE Unset

\* A tracker's limit goes before the global one when it is one.
PreferLimit(tracker, global) == IF tracker > 0 THEN tracker ELSE global

Larger(a, b) == IF a > b THEN a ELSE b

RatioLimit(s, k, t) ==
    Larger(PositiveOr(PreferLimit(k.ratio, s.ratio)), PositiveOr(t.ratioLimit))
TimeLimit(s, k, t) ==
    Larger(PositiveOr(PreferLimit(k.time, s.time)), PositiveOr(t.timeLimit))

\* torrent_limit_check, by the mode of RemoveTorrent.
LimitCheck(s, k, t, idle) ==
    LET ratioMet == RatioLimit(s, k, t) > 0 /\ t.ratio >= RatioLimit(s, k, t)
        timeMet  == /\ TimeLimit(s, k, t) > 0
                    /\ t.seeded >= TimeLimit(s, k, t) \/ (idle /\ t.state = "stalledUP")
    IN  \/ s.mode = 1 /\ ratioMet
        \/ s.mode = 2 /\ timeMet
        \/ s.mode = 3 /\ (ratioMet \/ timeMet)
        \/ s.mode = 4 /\ ratioMet /\ timeMet

\* The conditions of _hnr_safe_to_remove; one whose minimum is 0 is not asked for.
\* (Variant: the tracker's delay is not taken off the seeding time.)
RatioMet(k, t) == k.minRatio > 0 /\ t.ratio >= k.minRatio
TimeMetAtOnce(k, t) == k.minTime > 0 /\ t.seeded >= k.minTime
TimeMet(k, t) == k.minTime > 0 /\ t.seeded - k.buffer >= k.minTime

\* _hnr_safe_to_remove.
HnrSafe(k, t) ==
    \/ k.hnr = "disabled"
    \/ t.progress < k.minPart
    \/ Unfinished(t) /\ t.ratio >= k.partialRatio
    \/ /\ ~Unfinished(t)
       /\ \/ k.minRatio = 0 /\ k.minTime = 0
          \/ k.hnr = "and" /\ (k.minRatio > 0 => RatioMet(k, t)) /\ (k.minTime > 0 => TimeMet(k, t))
          \/ k.hnr = "or" /\ (RatioMet(k, t) \/ TimeMet(k, t))

\* _hnr_allows_delete; s.anyHnr when a configured tracker has obligations.
HnrAllows(s, k, t) ==
    \/ ~s.anyHnr
    \/ "dead" \in t.is
    \/ "known" \in t.is /\ HnrSafe(k, t)

\* is_uploading_state and is_complete_state.  (Variant: a paused upload is not one.)
UploadingNow(t) == t.state \in Seeding
Uploading(t) == t.state \in Complete

\* _should_leave_alone: whether the limits say to remove, and whether to leave alone.
\* (Its hit-and-run override asks for a torrent that uploads and downloads.)
Remove(s, k, t) ==
    /\ "super" \notin t.is /\ t.state # "forcedUP" /\ "known" \in t.is
    /\ Uploading(t) /\ LimitCheck(s, k, t, "idle" \in t.is)
LeaveAlone(s, k, t) ==
    \/ "super" \in t.is \/ t.state = "forcedUP" \/ "known" \notin t.is
    \/ ~(Uploading(t) /\ LimitCheck(s, k, t, "idleSoon" \in t.is))
    \/ k.super
    \/ "paused" \in t.tags

-----------------------------------------------------------------------------
(* The stalled delay. *)

\* A torrent the rules may stop, resume or delete.  (Variant: the free space tag is not
\* looked at.)
FreeIfUnignored(t) == "ignored" \notin t.tags
Free(t) == t.tags \intersect {"ignored", "paused"} = {}

Stalled(t) ==
    /\ Free(t)
    /\ \/ t.state \in Stuck \union {"stalledDL"}
       \/ "lowAvail" \in t.is /\ "cleaned" \in t.is /\ t.state = "downloading"

\* _stalled_check: the torrent is given time.
StalledIgnore(s, t) ==
    /\ t.state \in Stuck \union {"stalledDL", "downloading"}
    /\ s.allowStalled
    /\ "young" \in t.is \/ (Stalled(t) /\ "expired" \notin t.is)

\* It is then tagged, once, and Arr is told to look for another release.
TagStalled(s, t) == StalledIgnore(s, t) /\ "young" \notin t.is /\ "stalled" \notin t.tags
UntagStalled(s, t) ==
    /\ t.state \in Stuck \union {"stalledDL", "downloading"}
    /\ s.allowStalled /\ "young" \notin t.is /\ ~Stalled(t) /\ "stalled" \in t.tags

\* The tags after the decision: the stalled delay, and _should_leave_alone.
TagsAfter(s, k, t) ==
    LET seeds == /\ "super" \notin t.is /\ t.state # "forcedUP" /\ "known" \in t.is
                 /\ "paused" \notin t.tags /\ LeaveAlone(s, k, t)
        asks  == "super" \notin t.is /\ t.state # "forcedUP" /\ "known" \in t.is
        t1 == IF seeds THEN t.tags \union {"seeding"}
              ELSE IF asks THEN t.tags \ {"seeding"} ELSE t.tags
        t2 == IF TagStalled(s, t) THEN t1 \union {"stalled"}
              ELSE IF UntagStalled(s, t) THEN t1 \ {"stalled"} ELSE t1
    IN  IF "ignored" \in t.tags THEN t2 \ {"seeding", "paused"} ELSE t2

-----------------------------------------------------------------------------
(* The rules. *)

\* (Variant: an error with missing files is an error like the others.)
MissingFilesState(t) == t.state = "missingFiles"
MissingFiles(t) == t.state = "missingFiles" \/ (t.state = "error" /\ "missing" \in t.is)

\* A torrent is stalled, or its data unavailable, for long enough.
Ready(t) == "young" \notin t.is /\ (t.state \in Stuck \/ "quiet" \in t.is)

\* The first rule that applies, in the order of the code.
FirstRule(s, k, t, leave, wait) ==
    IF "cfUnmet" \in t.is /\ Free(t)                                   THEN "cf unmet"
    ELSE IF /\ Remove(s, k, t) /\ ~leave /\ ~Unfinished(t)
            /\ "ignored" \notin t.tags                              THEN "limit reached"
    ELSE IF t.cat = "failed"                                        THEN "failed"
    ELSE IF t.cat = "recheck"                                       THEN "recheck"
    ELSE IF MissingFiles(t)                                         THEN "missing files"
    ELSE IF t.state \in Untouched                                   THEN "untouched"
    ELSE IF t.state \in Stopped /\ leave /\ Free(t)                 THEN "resume"
    ELSE IF /\ t.state \in Stuck \union {"stalledDL"}
            /\ Free(t) /\ ~wait                                     THEN "stalled"
    ELSE IF /\ t.state \in Downloading \ Stuck
            /\ "special" \notin t.is /\ "cleaned" \notin t.is                 THEN "files"
    ELSE IF "skipped" \in t.is THEN IF t.state \in Stopped /\ Free(t)  THEN "resume"
                                                                    ELSE "skipped"
    ELSE IF t.state = "queuedUP"                                    THEN "uploading"
    ELSE IF t.state = "pausedDL" /\ Unfinished(t) /\ Free(t)        THEN "paused"
    ELSE IF /\ "lowShare" \in t.is /\ t.state \notin Complete
            /\ Free(t) /\ ~wait /\ "cleaned" \in t.is                  THEN "threshold"
    ELSE IF "scanned" \in t.is /\ "cleaned" \in t.is                      THEN "scanned"
    ELSE IF t.state = "error"                                       THEN "errored"
    ELSE IF /\ "settled" \in t.is /\ ~Unfinished(t)
            /\ t.state \in Complete \ {"pausedUP"}                  THEN "completed"
    ELSE IF /\ t.state \in Seeding /\ t.seeded > 1 /\ ~Unfinished(t)
            /\ s.mode # -1 /\ "cleaned" \in t.is                       THEN "uploading"
    ELSE IF /\ t.state \in Downloading \ {"pausedDL"}
            /\ "young" \notin t.is /\ "slow" \in t.is /\ ~s.keepSlow
            /\ Free(t) /\ ~wait                                     THEN "slow"
    ELSE IF /\ t.state \in {"downloading", "pausedDL"}
            /\ "young" \notin t.is /\ "lowAvail" \in t.is /\ "cleaned" \in t.is
            /\ Free(t) /\ ~wait                                     THEN "unavailable"
    ELSE IF t.state \in Downloading /\ "cleaned" \in t.is              THEN "cleaned"
    ELSE IF t.state \in Downloading                                 THEN "files"
    ELSE IF t.state \in Complete /\ leave                           THEN "resume"
    ELSE "unprocessed"
Rule(s, k, t) == FirstRule(s, k, t, LeaveAlone(s, k, t), StalledIgnore(s, t))

(* The handlers, by the batch queue they put the hash in. *)

StalledDeletes(r, t) == r \in {"stalled", "unavailable"} /\ Ready(t)
ThresholdDeletes(r, t) == r = "threshold" /\ "silent" \in t.is
LimitDeletes(r) == r = "limit reached"
OtherDeletes(r) == r \in {"cf unmet", "slow"}

\* They all ask first what is owed to the tracker; the failed category does not.
Deletes(r, s, k, t) ==
    \/ /\ StalledDeletes(r, t) \/ ThresholdDeletes(r, t) \/ LimitDeletes(r) \/ OtherDeletes(r)
       /\ HnrAllows(s, k, t)
    \/ r = "failed"

\* Deleted in qBittorrent only: not blocklisted.
Removes(r) == r = "missing files"

Rechecks(r) == r \in {"recheck", "errored"}
Resumes(r) == r \in {"resume", "paused"}
Pauses(r, leave) == r = "uploading" /\ ~leave
Imports(r, leave, t) == r = "completed" /\ ~leave /\ "imported" \notin t.tags

Outcome(r, leave, s, k, t) ==
    IF Deletes(r, s, k, t)       THEN "delete"
    ELSE IF Removes(r)           THEN "remove"
    ELSE IF Rechecks(r)          THEN "recheck"
    ELSE IF Resumes(r)           THEN "resume"
    ELSE IF Pauses(r, leave)     THEN "pause"
    ELSE IF Imports(r, leave, t) THEN "import"
    ELSE IF r = "files"          THEN "files"
    ELSE "nothing"
Verdict(s, k, t) == Outcome(Rule(s, k, t), LeaveAlone(s, k, t), s, k, t)

-----------------------------------------------------------------------------
(* The files of a torrent: skipped already, not wanted, wanted. *)

FileKinds == {"skip", "bad", "good"}

\* After the i-th file nothing is left to download.
NoneLeft(files) == \A j \in DOMAIN files : files[j] # "good"

\* The test for it comes with every file that is not skipped already.
DeletesAll(files) ==
    files # <<>> /\ NoneLeft(files) /\ files[Len(files)] = "bad"

\* The files to exclude: those seen when that test last failed.
Excluded(files) ==
    LET bad == {j \in DOMAIN files : files[j] = "bad"}
    IN  IF DeletesAll(files) THEN bad \ {Len(files)} ELSE bad

\* The files are looked at when the rule asks for it, whatever tags the torrent has; one
\* with none to download is deleted if nothing is owed.
Judgement(s, k, t, files) ==
    LET v == Verdict(s, k, t)
    IN  IF v # "files" THEN v
        ELSE IF files = <<>> THEN "nothing"
        ELSE IF DeletesAll(files) /\ HnrAllows(s, k, t) THEN "empty"
        ELSE IF Excluded(files) # {} THEN "exclude" ELSE "clean"
=============================================================================
