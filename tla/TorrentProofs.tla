--------------------------- MODULE TorrentProofs ---------------------------
(***************************************************************************)
(* Proofs about the decision on one torrent and about the loops that act   *)
(* on it.                                                                  *)
(*                                                                         *)
(* The ordered rules of _process_single_torrent, for every torrent, every  *)
(* set of flags, all settings and trackers: which rules a torrent can      *)
(* meet, and which queue they lead to.  TorrentLoop, for every set of      *)
(* instances and hashes, every setting and bound: what is blocklisted and  *)
(* deleted was condemned, and what was condemned is not forgotten before   *)
(* the Arr was told.                                                       *)
(***************************************************************************)
EXTENDS TorrentDecision, TorrentLoop, FiniteSetTheorems, TLAPS

-----------------------------------------------------------------------------
(* The decision on one torrent. *)

\* The verdict is that of the torrent of the call.
DecisionInv ==
    /\ set \in Settings /\ tracker \in Trackers
    /\ tracker.hnr # "disabled" => set.anyHnr
    /\ judged \in Torrent
    /\ verdict # "" => \E files \in FileLists : verdict = Judgement(set, tracker, judged, files)

\* The look at the files only replaces the verdict "files".
LEMMA FilesVerdict ==
  ASSUME NEW s, NEW k, NEW t, NEW files
  PROVE  \/ Judgement(s, k, t, files) = Verdict(s, k, t)
         \/ /\ Verdict(s, k, t) = "files"
            /\ Judgement(s, k, t, files) \in {"nothing", "empty", "exclude", "clean"}
            /\ Judgement(s, k, t, files) = "empty" => HnrAllows(s, k, t)
  BY DEF Judgement

\* So a verdict that no look at files gives is that of the rules.
LEMMA RulesVerdict ==
  ASSUME DecisionInv, verdict \in {"delete", "remove", "resume", "pause", "import"}
  PROVE  verdict = Verdict(set, tracker, judged)
  <1>1. PICK files \in FileLists : verdict = Judgement(set, tracker, judged, files)
    BY DEF DecisionInv
  <1> QED
    BY <1>1, FilesVerdict

\* A torrent is only deleted by a handler that asks what is owed, or by the failed
\* category's.
LEMMA DeleteAllowed ==
  ASSUME NEW s, NEW k, NEW t, Verdict(s, k, t) = "delete"
  PROVE  HnrAllows(s, k, t) \/ Rule(s, k, t) = "failed"
  BY DEF Verdict, Outcome, Deletes

\* The arithmetic of _hnr_safe_to_remove: what it calls safe owes nothing.
LEMMA SafeOwesNothing ==
  ASSUME NEW k \in Trackers, NEW t \in Torrent, HnrSafe(k, t)
  PROVE  ~Owes(k, t)
  <1>1. /\ k.minRatio \in Nat /\ k.minTime \in Nat /\ k.minPart \in Nat
        /\ k.partialRatio \in Nat /\ k.buffer \in Nat /\ k.hnr \in {"disabled", "and", "or"}
    BY DecisionAssumption
  <1>2. t.progress \in 0 .. 100 /\ t.ratio \in Nat /\ t.seeded \in Nat
    BY DEF Torrent
  <1>3. RatioMet(k, t) => ~(k.minRatio > 0 /\ t.ratio < k.minRatio)
    BY <1>1, <1>2 DEF RatioMet
  <1>4. TimeMet(k, t) => ~(k.minTime > 0 /\ t.seeded < k.minTime + k.buffer)
    BY <1>1, <1>2 DEF TimeMet
  <1>5. CASE k.hnr = "disabled" \/ t.progress < k.minPart
    BY <1>1, <1>2, <1>5 DEF Owes
  <1>6. CASE Unfinished(t) /\ t.ratio >= k.partialRatio
    BY <1>1, <1>2, <1>6 DEF Owes, Unfinished
  <1>7. CASE ~Unfinished(t) /\ k.minRatio = 0 /\ k.minTime = 0
    BY <1>1, <1>2, <1>7 DEF Owes, Unfinished
  <1>8. CASE /\ ~Unfinished(t) /\ k.hnr = "and"
             /\ k.minRatio > 0 => RatioMet(k, t)
             /\ k.minTime > 0 => TimeMet(k, t)
    BY <1>1, <1>2, <1>3, <1>4, <1>8 DEF Owes, Unfinished
  <1>9. CASE ~Unfinished(t) /\ k.hnr = "or" /\ RatioMet(k, t)
    BY <1>1, <1>2, <1>3, <1>9 DEF Owes, Unfinished, RatioMet
  <1>10. CASE ~Unfinished(t) /\ k.hnr = "or" /\ TimeMet(k, t)
    BY <1>1, <1>2, <1>4, <1>10 DEF Owes, Unfinished, TimeMet
  <1> QED
    BY <1>5, <1>6, <1>7, <1>8, <1>9, <1>10 DEF HnrSafe

\* So what _hnr_allows_delete lets go owes nothing to a tracker that still knows it.
LEMMA AllowedOwesNothing ==
  ASSUME DecisionInv, HnrAllows(set, tracker, judged), "dead" \notin judged.is
  PROVE  ~(Owes(tracker, judged) \/ (set.anyHnr /\ "known" \notin judged.is))
  <1>1. CASE ~set.anyHnr
    BY <1>1 DEF DecisionInv, Owes
  <1>2. CASE "known" \in judged.is /\ HnrSafe(tracker, judged)
    BY <1>2, SafeOwesNothing DEF DecisionInv
  <1> QED
    BY <1>1, <1>2 DEF HnrAllows

\* Only torrents of the failed category meet its rule.
LEMMA FailedRule ==
  ASSUME NEW s, NEW k, NEW t, Rule(s, k, t) = "failed"
  PROVE  t.cat = "failed"
  BY DEF Rule, FirstRule

\* The rules that neither resume nor delete, although they do not look at the tags.
HeldRules == {"missing files", "untouched", "files", "skipped", "uploading", "scanned",
              "errored", "completed", "cleaned", "unprocessed"}

\* A stopped download held for want of space meets none of the rules that resume or delete:
\* each of them looks at the tags.
LEMMA HeldRule ==
  ASSUME NEW s, NEW k, NEW t, t.cat = "own", "paused" \in t.tags,
         t.state \in {"pausedDL", "stoppedDL"}
  PROVE  Rule(s, k, t) \in HeldRules
  <1>1. ~Free(t) /\ ~Uploading(t) /\ t.state \notin Complete
    BY DEF Free, Uploading, Complete, Seeding
  <1>2. ~Remove(s, k, t)
    BY <1>1 DEF Remove
  <1> QED
    BY <1>1, <1>2 DEF Rule, FirstRule, HeldRules

\* What these rules lead to.
LEMMA HeldVerdict ==
  ASSUME NEW s, NEW k, NEW t,
         Rule(s, k, t) \in HeldRules
  PROVE  Verdict(s, k, t) \notin {"resume", "delete"}
  BY DEF Verdict, Outcome, Deletes, StalledDeletes, ThresholdDeletes, LimitDeletes, OtherDeletes,
         Removes, Rechecks, Resumes, HeldRules

\* A torrent whose files are missing meets the rule for it.
LEMMA GoneRule ==
  ASSUME NEW s, NEW k, NEW t, t.cat = "own", MissingFiles(t), "cfUnmet" \notin t.is
  PROVE  Rule(s, k, t) = "missing files"
  <1>1. ~Remove(s, k, t)
    BY DEF Remove, MissingFiles, Uploading, Complete, Seeding
  <1> QED
    BY <1>1 DEF Rule, FirstRule

\* What that rule leads to.
LEMMA GoneVerdict ==
  ASSUME NEW s, NEW k, NEW t, Rule(s, k, t) = "missing files"
  PROVE  Verdict(s, k, t) = "remove"
  BY DEF Verdict, Outcome, Deletes, StalledDeletes, ThresholdDeletes, LimitDeletes, OtherDeletes,
         Removes

\* Limits met at the second look were met at the first, unless the idle time ran out
\* between the two.
LEMMA MetBefore ==
  ASSUME NEW s, NEW k, NEW t, LimitCheck(s, k, t, "idleSoon" \in t.is),
         "idleSoon" \notin t.is \/ "idle" \in t.is
  PROVE  LimitCheck(s, k, t, "idle" \in t.is)
  BY DEF LimitCheck

\* What may not seed on has met its limits: were it complete and not ignored, the rule that
\* deletes for the limits would come first.
LEMMA DoneRemoved ==
  ASSUME NEW s, NEW k, NEW t, ~LeaveAlone(s, k, t),
         LimitCheck(s, k, t, "idleSoon" \in t.is) => LimitCheck(s, k, t, "idle" \in t.is)
  PROVE  Remove(s, k, t)
  BY DEF LeaveAlone, Remove

LEMMA InitDecision == DecisionInit => DecisionInv
  <1> SUFFICES ASSUME DecisionInit PROVE DecisionInv
    OBVIOUS
  <1>1. PICK st \in States, c \in {"own", "failed"}, f \in Figures[tracker],
             g \in SUBSET {"ignored", "paused", "imported"} :
             judged = [state |-> st, cat |-> c, tags |-> g, progress |-> f.progress,
                        ratio |-> f.ratio, seeded |-> f.seeded, ratioLimit |-> -2,
                        timeLimit |-> -2, is |-> {}]
    BY DEF DecisionInit
  <1>2. f \in [progress: 0 .. 100, ratio: Nat, seeded: Nat]
    BY DecisionAssumption DEF DecisionInit
  <1>3. g \in SUBSET Tags
    BY DEF Tags
  <1>4. judged \in Torrent
    BY <1>1, <1>2, <1>3 DEF Torrent
  <1> QED
    BY <1>4 DEF DecisionInit, DecisionInv

LEMMA StepDecision == DecisionInv /\ [Decide]_decision => DecisionInv'
  <1> SUFFICES ASSUME DecisionInv, [Decide]_decision PROVE DecisionInv'
    OBVIOUS
  <1>1. CASE Decide
    <2>1. PICK raised \in Looks[tracker] : judged' = [judged EXCEPT !.is = raised]
      BY <1>1 DEF Decide
    <2>2. raised \in SUBSET Flags
      BY DecisionAssumption DEF DecisionInv
    <2>3. judged' \in Torrent
      BY <2>1, <2>2 DEF DecisionInv, Torrent
    <2> QED
      BY <1>1, <2>1, <2>3 DEF Decide, DecisionInv
  <1>2. CASE UNCHANGED decision
    BY <1>2 DEF decision, DecisionInv
  <1> QED
    BY <1>1, <1>2

\* Every verdict given is the one for the torrent, the settings and the tracker of the call.
THEOREM DecisionInvariant == DecisionSpec => []DecisionInv
  BY InitDecision, StepDecision, PTL DEF DecisionSpec

\* Nothing leaves the client while something is owed to its tracker, but for the failed
\* category's loop and for missing files.
THEOREM OwedKeptHolds == DecisionSpec => []OwedKept
  <1>1. DecisionInv => OwedKept
    <2> SUFFICES ASSUME DecisionInv, verdict \in {"delete", "empty", "remove"},
                        "dead" \notin judged.is,
                        Owes(tracker, judged) \/ (set.anyHnr /\ "known" \notin judged.is)
                 PROVE  \/ judged.cat = "failed"
                        \/ verdict = "remove" /\ judged.state \in {"missingFiles", "error"}
      BY DEF OwedKept
    <2>1. ~HnrAllows(set, tracker, judged)
      BY AllowedOwesNothing
    <2>2. CASE verdict = "delete"
      BY <2>1, <2>2, RulesVerdict, DeleteAllowed, FailedRule
    <2>3. CASE verdict = "empty"
      <3>1. PICK files \in FileLists : verdict = Judgement(set, tracker, judged, files)
        BY <2>3 DEF DecisionInv
      <3>2. verdict # Verdict(set, tracker, judged)
        BY <2>3 DEF Verdict, Outcome
      <3> QED
        BY <2>1, <2>3, <3>1, <3>2, FilesVerdict
    <2>4. CASE verdict = "remove"
      <3>1. Rule(set, tracker, judged) = "missing files"
        BY <2>4, RulesVerdict DEF Verdict, Outcome, Removes
      <3>2. MissingFiles(judged)
        BY <3>1 DEF Rule, FirstRule
      <3> QED
        BY <2>4, <3>2 DEF MissingFiles
    <2> QED
      BY <2>2, <2>3, <2>4
  <1> QED
    BY <1>1, DecisionInvariant, PTL

\* A download held for want of space is neither resumed nor deleted, unless its files are
\* looked at for the first time and there is none to keep.
THEOREM SpaceHeldHolds == DecisionSpec => []SpaceHeld
  <1>1. ASSUME NEW s, NEW k, NEW t, Rule(s, k, t) = "files", t.state \in Downloading
        PROVE  "cleaned" \notin t.is
    BY <1>1 DEF Rule, FirstRule
  <1>2. ASSUME NEW s, NEW k, NEW t, Verdict(s, k, t) = "files"
        PROVE  Rule(s, k, t) = "files"
    BY <1>2 DEF Verdict, Outcome
  <1>3. DecisionInv => SpaceHeld
    <2> SUFFICES ASSUME DecisionInv, Answered, judged.cat = "own", "paused" \in judged.tags,
                        judged.state \in {"pausedDL", "stoppedDL"}
                 PROVE  /\ verdict \notin {"resume", "delete"}
                        /\ verdict = "empty" => "cleaned" \notin judged.is
      BY DEF SpaceHeld
    <2>1. Rule(set, tracker, judged) \in HeldRules
      BY HeldRule
    <2>2. verdict \notin {"resume", "delete"}
      BY <2>1, HeldVerdict, RulesVerdict
    <2>3. ASSUME verdict = "empty"
          PROVE  "cleaned" \notin judged.is
      <3>1. PICK files \in FileLists : verdict = Judgement(set, tracker, judged, files)
        BY <2>3 DEF DecisionInv
      <3>2. verdict # Verdict(set, tracker, judged)
        BY <2>3 DEF Verdict, Outcome
      <3>3. Verdict(set, tracker, judged) = "files"
        BY <3>1, <3>2, FilesVerdict
      <3>4. judged.state \in Downloading
        BY DEF Downloading
      <3> QED
        BY <1>1, <1>2, <3>3, <3>4
    <2> QED
      BY <2>2, <2>3
  <1> QED
    BY <1>3, DecisionInvariant, PTL

\* A torrent whose files are missing is removed without being blocklisted.
THEOREM MissingNotBlocklistedHolds == DecisionSpec => []MissingNotBlocklisted
  <1>1. DecisionInv => MissingNotBlocklisted
    <2> SUFFICES ASSUME DecisionInv, Answered, judged.cat = "own", "cfUnmet" \notin judged.is,
                        MissingFiles(judged)
                 PROVE  verdict = "remove"
      BY DEF MissingNotBlocklisted, MissingFiles
    <2>1. PICK files \in FileLists : verdict = Judgement(set, tracker, judged, files)
      BY DEF DecisionInv, Answered
    <2>2. Verdict(set, tracker, judged) = "remove"
      BY GoneRule, GoneVerdict, Zenon
    <2>3. \/ verdict = Verdict(set, tracker, judged)
          \/ Verdict(set, tracker, judged) = "files"
      BY <2>1, FilesVerdict, Zenon
    <2> QED
      BY <2>2, <2>3
  <1> QED
    BY <1>1, DecisionInvariant, PTL

\* The import is only reached with the tag qBitrr-ignored or when the idle time runs out
\* between two looks at the torrent: the rule that deletes for the limits comes first.
THEOREM ImportOnlyIgnoredHolds == DecisionSpec => []ImportOnlyIgnored
  <1>1. ASSUME NEW s, NEW k, NEW t, Verdict(s, k, t) = "import"
        PROVE  /\ Rule(s, k, t) = "completed" /\ ~LeaveAlone(s, k, t)
    BY <1>1 DEF Verdict, Outcome, Imports
  <1>2. ASSUME NEW s, NEW k, NEW t, Rule(s, k, t) = "completed"
        PROVE  ~Unfinished(t)
    BY <1>2 DEF Rule, FirstRule
  <1>3. ASSUME NEW s, NEW k, NEW t, Remove(s, k, t), ~LeaveAlone(s, k, t), ~Unfinished(t),
               "ignored" \notin t.tags
        PROVE  Rule(s, k, t) \in {"cf unmet", "limit reached"}
    BY <1>3 DEF Rule, FirstRule
  <1>4. DecisionInv => ImportOnlyIgnored
    <2> SUFFICES ASSUME DecisionInv, verdict = "import", "ignored" \notin judged.tags,
                        "idleSoon" \notin judged.is \/ "idle" \in judged.is
                 PROVE  FALSE
      BY DEF ImportOnlyIgnored
    <2>1. Rule(set, tracker, judged) = "completed" /\ ~LeaveAlone(set, tracker, judged)
      BY <1>1, RulesVerdict
    <2>2. LimitCheck(set, tracker, judged, "idleSoon" \in judged.is)
      BY <2>1 DEF LeaveAlone
    <2>3. LimitCheck(set, tracker, judged, "idle" \in judged.is)
      BY <2>2, MetBefore
    <2> QED
      BY <1>2, <1>3, <2>1, <2>3, DoneRemoved
  <1> QED
    BY <1>4, DecisionInvariant, PTL

\* What is paused for its limits is the rule of uploads, for a torrent that may not seed on.
LEMMA PausedRule ==
  ASSUME NEW s, NEW k, NEW t, Verdict(s, k, t) = "pause"
  PROVE  Rule(s, k, t) = "uploading" /\ ~LeaveAlone(s, k, t)
  BY DEF Verdict, Outcome, Pauses

\* A complete one of them has the tag qBitrr-ignored: without it, it would be deleted.
LEMMA PausedIsIgnored ==
  ASSUME NEW s, NEW k, NEW t, Rule(s, k, t) = "uploading", Remove(s, k, t),
         ~LeaveAlone(s, k, t), ~Unfinished(t)
  PROVE  "ignored" \in t.tags
  BY DEF Rule, FirstRule

\* A paused upload that has met its limits is not left alone.
LEMMA StillDone ==
  ASSUME NEW s, NEW k, NEW t \in Torrent, NEW u, u = [t EXCEPT !.state = "pausedUP"],
         ~LeaveAlone(s, k, t), "idleSoon" \notin t.is
  PROVE  ~LeaveAlone(s, k, u)
  <1>1. /\ u.is = t.is /\ u.tags = t.tags /\ u.state = "pausedUP"
        /\ u.ratio = t.ratio /\ u.seeded = t.seeded
        /\ u.ratioLimit = t.ratioLimit /\ u.timeLimit = t.timeLimit
    BY DEF Torrent
  <1>2. LimitCheck(s, k, t, "idleSoon" \in t.is)
    BY DEF LeaveAlone
  <1>3. LimitCheck(s, k, u, "idleSoon" \in u.is)
    BY <1>1, <1>2 DEF LimitCheck, RatioLimit, TimeLimit
  <1>4. Uploading(u)
    BY <1>1 DEF Uploading, Complete
  <1> QED
    BY <1>1, <1>3, <1>4 DEF LeaveAlone

\* Neither state that a paused upload shows is resumed.
LEMMA NotResumed ==
  ASSUME NEW s, NEW k, NEW u, u.progress = 100, "ignored" \in u.tags,
         u.state = "stoppedUP" \/ (u.state = "pausedUP" /\ ~LeaveAlone(s, k, u))
  PROVE  Verdict(s, k, u) # "resume"
  <1>1. ~Free(u) /\ ~Unfinished(u)
    BY DEF Free, Unfinished
  <1>2. Rule(s, k, u) \notin {"resume", "paused"}
    BY <1>1 DEF Rule, FirstRule, Stopped, Complete, Seeding
  <1> QED
    BY <1>2 DEF Verdict, Outcome, Resumes

\* What is paused for its limits is not resumed by the next iteration.
THEOREM NoPingPongHolds == DecisionSpec => []NoPingPong
  <1>1. DecisionInv => NoPingPong
    <2> SUFFICES ASSUME DecisionInv, verdict = "pause", judged.progress = 100,
                        "idleSoon" \notin judged.is, NEW st \in {"pausedUP", "stoppedUP"}
                 PROVE  Verdict(set, tracker, [judged EXCEPT !.state = st]) # "resume"
      BY DEF NoPingPong
    <2>1. Rule(set, tracker, judged) = "uploading" /\ ~LeaveAlone(set, tracker, judged)
      BY PausedRule, RulesVerdict
    <2>2. LimitCheck(set, tracker, judged, "idle" \in judged.is)
      BY <2>1, MetBefore DEF LeaveAlone
    <2>3. "ignored" \in judged.tags
      BY <2>1, <2>2, DoneRemoved, PausedIsIgnored DEF Unfinished
    <2>4. judged \in Torrent
      BY DEF DecisionInv
    <2>5. [judged EXCEPT !.state = st].state = st
          /\ [judged EXCEPT !.state = st].tags = judged.tags
          /\ [judged EXCEPT !.state = st].progress = judged.progress
      BY <2>4 DEF Torrent
    <2>6. st = "pausedUP" => ~LeaveAlone(set, tracker, [judged EXCEPT !.state = st])
      BY <2>1, <2>4, StillDone
    <2> DEFINE u == [judged EXCEPT !.state = st]
    <2>7. u.progress = 100 /\ "ignored" \in u.tags /\ u.state = st
      BY <2>3, <2>5
    <2>8. u.state = "stoppedUP" \/ (u.state = "pausedUP" /\ ~LeaveAlone(set, tracker, u))
      BY <2>6, <2>7
    <2> HIDE DEF u
    <2>9. Verdict(set, tracker, u) # "resume"
      BY <2>7, <2>8, NotResumed
    <2> QED
      BY <2>9 DEF u
  <1> QED
    BY <1>1, DecisionInvariant, PTL

-----------------------------------------------------------------------------
(* The loops. *)

\* Why each process has what it has marked for deletion.
Reasons ==
    \A p \in Procs :
        /\ mem[p].delete \subseteq Held(Mourned)
        /\ mem[p].bad \subseteq warned
        /\ mem[p].targets \subseteq Held(Mourned) \union warned
        /\ mem[p].remove \subseteq missed
        /\ mem[p].deleteAt \subseteq Mourned

\* What was surely deleted is between two batches only, it is not to be deleted again, and
\* the Arr will be told of what was condemned of it.
Handover ==
    \A p \in Procs :
        /\ mem[p].confirmed # {} => pc[p] = "queue"
        /\ mem[p].confirmed \intersect Held(mem[p].remove \union mem[p].deleteAt) = {}
        /\ mem[p].confirmed \intersect mem[p].delete \subseteq mem[p].targets

\* A deletion that is pending on an instance is marked for the Arr too.
PendingIsMarked == \A p \in Procs : Held(mem[p].deleteAt) \subseteq mem[p].delete

\* What the Arr's loop condemned is marked until it has left the Arr's queue, unless the
\* process died.
StillMarked ==
    spent.crashes = 0 =>
        \A c \in Copies : <<"arr", c>> \in condemned /\ Hash(c) \in queue =>
            Hash(c) \in mem["arr"].delete

\* Once something is condemned, the queue last fetched contains the queue.
Cached ==
    spent.crashes = 0 /\ (\E c \in Copies : <<"arr", c>> \in condemned) =>
        queue \subseteq mem["arr"].seen

\* The inductive invariant.
LoopInv ==
    /\ LoopTypeOK /\ Reasons /\ Handover /\ PendingIsMarked /\ StillMarked /\ Cached
    /\ OnlyCondemnedBlocked /\ ErasedWasMarked

-----------------------------------------------------------------------------
(* What the operators do to a process's memory. *)

\* A memory may be changed in any of its sets.
LEMMA MemoryFields ==
  ASSUME NEW m \in Memory
  PROVE  /\ \A b \in Buckets : m[b] \subseteq Copies
         /\ \A n \in Notes : m[n] \subseteq Hashes
         /\ DOMAIN m = Buckets \union Notes
         /\ m = [x \in Buckets \union Notes |-> m[x]]
  BY DEF Memory

\* An empty memory is one, and copies hold hashes.
LEMMA BlankMemory == Blank \in Memory
  BY DEF Blank, Memory

LEMMA HeldType ==
  ASSUME NEW S \in SUBSET Copies
  PROVE  Held(S) \subseteq Hashes
  BY DEF Held, Hash, Copies

\* A memory stays one when a bucket is set to copies, or a note to hashes.
LEMMA SetBucket ==
  ASSUME NEW m \in Memory, NEW b \in Buckets, NEW S \in SUBSET Copies
  PROVE  [m EXCEPT ![b] = S] \in Memory
  BY DEF Memory, Buckets, Notes

LEMMA SetNote ==
  ASSUME NEW m \in Memory, NEW n \in Notes, NEW S \in SUBSET Hashes
  PROVE  [m EXCEPT ![n] = S] \in Memory
  BY DEF Memory, Buckets, Notes

\* The memory d after decisions on m: it has new marks, and the rest of the batches in
\* progress is left alone.
Adds(m, d, verdicts) ==
    LET doomed == Given(verdicts, {"delete", "empty"})
    IN  /\ d \in Memory
        /\ d.delete = m.delete \union Held(doomed)
        /\ d.deleteAt = m.deleteAt \union doomed
        /\ d.remove = m.remove \union Given(verdicts, {"remove"})
        /\ d.bad = m.bad /\ d.confirmed = m.confirmed /\ d.targets = m.targets
        /\ d.seen = m.seen

\* The decisions add what was condemned to the marks.
LEMMA DecidedMarks ==
  ASSUME NEW p, NEW m \in Memory, NEW verdicts,
         \A v \in verdicts : v[1] \in Copies
  PROVE  Adds(m, Decided(p, m, verdicts), verdicts)
  <1>1. \A kinds : Given(verdicts, kinds) \subseteq Copies
    BY DEF Given
  <1>2. Given(verdicts, {"delete"}) \union Given(verdicts, {"empty"})
          = Given(verdicts, {"delete", "empty"})
    BY DEF Given
  <1> DEFINE d == Decided(p, m, verdicts)
             All == Buckets \union Notes
  <1>3. m \in [All -> SUBSET (Copies \union Hashes)]
    BY DEF Memory
  <1>4. /\ d.delete = m.delete \union Held(Given(verdicts, {"delete"}) \union Given(verdicts, {"empty"}))
        /\ d.deleteAt = m.deleteAt \union Given(verdicts, {"delete"}) \union Given(verdicts, {"empty"})
        /\ d.remove = m.remove \union Given(verdicts, {"remove"})
    BY <1>3, Zenon DEF Decided, Buckets, Notes
  <1>5. /\ d.bad = m.bad /\ d.confirmed = m.confirmed /\ d.targets = m.targets
        /\ d.seen = m.seen
    BY <1>3, Zenon DEF Decided, Buckets, Notes
  <1>6. d \in Memory
    <2> DEFINE of(x) == Given(verdicts, {x})
               m1 == [m  EXCEPT !.resume = m.resume \union of("resume")]
               m2 == [m1 EXCEPT !.pause = m.pause \union of("pause")]
               m3 == [m2 EXCEPT !.recheck = m.recheck \union of("recheck")]
               m4 == [m3 EXCEPT !.files = m.files \union of("exclude") \union
                                   {c \in of("empty") : Excluded(FilesOf[Hash(c)]) # {}}]
               m5 == [m4 EXCEPT !.imports = m.imports \union of("import")]
               m6 == [m5 EXCEPT !.remove = m.remove \union of("remove")]
               m7 == [m6 EXCEPT !.deleteAt = m.deleteAt \union of("delete") \union of("empty")]
               m8 == [m7 EXCEPT !.delete = m.delete \union Held(of("delete") \union of("empty"))]
               m9 == [m8 EXCEPT !.cleaned = m.cleaned \union
                         Held(of("exclude") \union of("empty") \union of("clean"))]
               m10 == [m9 EXCEPT !.home = m.home \union
                         Held({c \in {v[1] : v \in verdicts} : torrent[c].cat # "recheck"})]
    <2>1. d = m10
      BY Zenon DEF Decided
    <2>2. \A x : of(x) \subseteq Copies
      BY <1>1
    <2>3. {v[1] : v \in verdicts} \subseteq Copies
      OBVIOUS
    <2>4. /\ m.resume \subseteq Copies /\ m.pause \subseteq Copies /\ m.recheck \subseteq Copies
          /\ m.files \subseteq Copies /\ m.imports \subseteq Copies /\ m.remove \subseteq Copies
          /\ m.deleteAt \subseteq Copies
          /\ m.delete \subseteq Hashes /\ m.cleaned \subseteq Hashes /\ m.home \subseteq Hashes
      BY MemoryFields, Zenon DEF Buckets, Notes
    <2>5. m1 \in Memory /\ m2 \in Memory /\ m3 \in Memory
      BY <2>2, <2>4, SetBucket, Zenon DEF Buckets
    <2>6. m4 \in Memory /\ m5 \in Memory
      BY <2>2, <2>4, <2>5, SetBucket, Zenon DEF Buckets
    <2>7. m6 \in Memory /\ m7 \in Memory
      BY <2>2, <2>4, <2>6, SetBucket, Zenon DEF Buckets
    <2>8. /\ Held(of("delete") \union of("empty")) \subseteq Hashes
          /\ Held(of("exclude") \union of("empty") \union of("clean")) \subseteq Hashes
      BY <2>2, HeldType
    <2>a. m8 \in Memory
      BY <2>2, <2>4, <2>7, <2>8, SetNote, Zenon DEF Notes
    <2>b. m9 \in Memory
      BY <2>2, <2>4, <2>8, <2>a, SetNote, Zenon DEF Notes
    <2>9. Held({c \in {v[1] : v \in verdicts} : torrent[c].cat # "recheck"}) \subseteq Hashes
      BY <2>3, HeldType
    <2>c. m10 \in Memory
      BY <2>4, <2>9, <2>b, SetNote, Zenon DEF Notes
    <2> QED
      BY <2>1, <2>c
  <1> QED
    BY <1>2, <1>4, <1>5, <1>6 DEF Adds

-----------------------------------------------------------------------------
(* The order of the batches. *)

Batches == {"fetch", "resume", "pause", "recheck", "files", "imports", "failed", "queue", "clean"}

\* A set of places in the order has a first one.
LEMMA FirstPlace ==
  ASSUME NEW S \in SUBSET (1 .. 8), S # {}
  PROVE  \E i \in S : \A j \in S : i <= j
  <1>1. CASE 1 \in S
    BY <1>1
  <1>2. CASE 1 \notin S /\ 2 \in S
    BY <1>2
  <1>3. CASE 1 \notin S /\ 2 \notin S /\ 3 \in S
    BY <1>3
  <1>4. CASE 1 \notin S /\ 2 \notin S /\ 3 \notin S /\ 4 \in S
    BY <1>4
  <1>5. CASE S \subseteq 5 .. 8
    <2>1. CASE 5 \in S
      BY <1>5, <2>1
    <2>2. CASE 5 \notin S /\ 6 \in S
      BY <1>5, <2>2
    <2>3. CASE 5 \notin S /\ 6 \notin S /\ 7 \in S
      BY <1>5, <2>3
    <2>4. CASE 5 \notin S /\ 6 \notin S /\ 7 \notin S
      <3>1. \A i \in S : i = 8
        BY <1>5, <2>4
      <3>2. PICK x \in S : TRUE
        OBVIOUS
      <3> QED
        BY <3>1, <3>2
    <2> QED
      BY <2>1, <2>2, <2>3, <2>4
  <1> QED
    BY <1>1, <1>2, <1>3, <1>4, <1>5

\* A process goes on to a batch with its new memory; after the deletions to the Arr's queue
\* as soon as anything was surely deleted.
LEMMA ProceedStep ==
  ASSUME NEW p \in Procs, NEW after, NEW m, Proceed(p, after, m),
         pc \in [Procs -> Batches]
  PROVE  /\ mem' = [mem EXCEPT ![p] = m]
         /\ pc' \in [Procs -> Batches]
         /\ \A q \in Procs : q # p => pc'[q] = pc[q]
         /\ after = "failed" /\ m.confirmed # {} => pc'[p] = "queue"
  <1> DEFINE done(i) == after # "fetch" /\ \E j \in i .. Len(Order) : Order[j] = after
             later == {i \in DOMAIN Order : ~done(i) /\ Busy(p, m, Order[i])}
             first == CHOOSE i \in later : \A j \in later : i <= j
  <1>1. /\ mem' = [mem EXCEPT ![p] = m]
        /\ pc' = [pc EXCEPT ![p] = IF later = {} THEN "fetch" ELSE Order[first]]
    <2>1. GoOn(p, after, m)
      BY Zenon DEF Proceed
    <2> QED
      BY <2>1, Zenon DEF GoOn
  <1>2. /\ DOMAIN Order = 1 .. 8 /\ Len(Order) = 8
        /\ \A i \in 1 .. 8 : Order[i] \in Batches
        /\ Order[6] = "failed" /\ Order[7] = "queue"
        /\ Order[7] # "failed" /\ Order[8] # "failed"
    BY DEF Order, Batches
  <1>3. ASSUME later # {}
        PROVE  first \in later /\ \A j \in later : first <= j
    <2>1. later \in SUBSET (1 .. 8)
      BY <1>2
    <2>2. \E i \in later : \A j \in later : i <= j
      BY <1>3, <2>1, FirstPlace
    <2> QED
      BY <2>2
  <1>4. (IF later = {} THEN "fetch" ELSE Order[first]) \in Batches
    BY <1>2, <1>3 DEF Batches
  <1>5. ASSUME after = "failed", m.confirmed # {}
        PROVE  pc'[p] = "queue"
    <2>1. \A i \in 1 .. 8 : i <= 6 => done(i)
      BY <1>2, <1>5
    <2>2. ~done(7)
      BY <1>2, <1>5
    <2>3. Busy(p, m, "queue")
      BY <1>5, Zenon DEF Busy
    <2>4. 7 \in later
      BY <1>2, <2>2, <2>3
    <2>5. \A j \in later : 7 <= j
      BY <1>2, <2>1
    <2>6. first = 7
      BY <1>2, <1>3, <2>4, <2>5
    <2> QED
      BY <1>1, <1>2, <2>4, <2>6
  <1> QED
    BY <1>1, <1>4, <1>5

-----------------------------------------------------------------------------
(* The batches that only touch what is resumed, paused, rechecked or imported, and the      *)
(* refresh of the warnings.                                                                 *)

Marks ==
    /\ Reasons /\ Handover /\ PendingIsMarked /\ StillMarked /\ Cached
    /\ OnlyCondemnedBlocked /\ ErasedWasMarked

\* A step of one process that leaves its marks as they are, but for new warnings of the Arr,
\* keeps the invariant.
LEMMA KeepsMarks ==
  ASSUME LoopTypeOK, Marks, NEW p \in Procs, NEW m \in Memory,
         mem' = [mem EXCEPT ![p] = m],
         mem[p].confirmed = {}, m.confirmed = {},
         m.delete = mem[p].delete, m.deleteAt = mem[p].deleteAt, m.remove = mem[p].remove,
         m.targets = mem[p].targets, m.seen = mem[p].seen,
         m.bad \subseteq mem[p].bad \union warned,
         \A q \in Procs : q # p => pc'[q] = pc[q],
         UNCHANGED <<arrSide, history>>, spent'.crashes = spent.crashes
  PROVE  Marks'
  <1>1. /\ mem'[p] = m
        /\ \A q \in Procs : q # p => mem'[q] = mem[q]
    BY DEF LoopTypeOK
  <1>2. UNCHANGED <<queue, warned, blocked, condemned, delayed, missed, erased>>
    BY DEF arrSide, history
  <1>3. Mourned' = Mourned
    BY <1>2 DEF Mourned
  <1>4. Reasons'
    BY <1>1, <1>2, <1>3 DEF Marks, Reasons
  <1>5. Handover'
    BY <1>1 DEF Marks, Handover
  <1>6. PendingIsMarked'
    BY <1>1 DEF Marks, PendingIsMarked
  <1>7. mem'["arr"].delete = mem["arr"].delete /\ mem'["arr"].seen = mem["arr"].seen
    BY <1>1 DEF Procs
  <1>8. StillMarked' /\ Cached'
    BY <1>2, <1>7 DEF Marks, StillMarked, Cached
  <1>9. OnlyCondemnedBlocked' /\ ErasedWasMarked'
    BY <1>2, <1>3 DEF Marks, OnlyCondemnedBlocked, ErasedWasMarked
  <1> QED
    BY <1>4, <1>5, <1>6, <1>8, <1>9 DEF Marks

-----------------------------------------------------------------------------
(* What each step does to the types and to what is counted. *)

Spent == [changes : 0 .. MaxChanges, faults : 0 .. MaxFaults, crashes : 0 .. MaxCrashes]

\* Calls that fail only count as faults.
LEMMA FaultStep ==
  ASSUME spent \in Spent, NEW n \in Nat, Fault(n)
  PROVE  spent' \in Spent /\ spent'.crashes = spent.crashes
  <1>1. spent' = [spent EXCEPT !.faults = spent.faults + n]
    BY DEF Fault
  <1>2. /\ spent.faults \in Nat
        /\ spent.changes \in 0 .. MaxChanges /\ spent.crashes \in 0 .. MaxCrashes
    BY DEF Spent
  <1>3. spent.faults + n \in 0 .. MaxFaults
    BY <1>2, LoopAssumption DEF Fault
  <1>4. spent' \in Spent
    BY <1>1, <1>3, Zenon DEF Spent
  <1>5. spent'.crashes = spent.crashes
    BY <1>1, Zenon DEF Spent
  <1> QED
    BY <1>4, <1>5

\* There are finitely many copies, so that failures are counted.
LEMMA FailuresType ==
  ASSUME NEW copies \in SUBSET Copies, NEW reply \in Replies(copies)
  PROVE  Failures(reply) \in Nat
  <1>1. DOMAIN reply \subseteq Instances
    BY DEF Replies, Placed, Copies
  <1>2. IsFiniteSet({i \in DOMAIN reply : reply[i] # "ok"})
    BY <1>1, FS_Subset, LoopAssumption
  <1> QED
    BY <1>2, FS_CardinalityType DEF Failures

\* There are finitely many copies.
LEMMA CopiesFinite == IsFiniteSet(Copies)
  BY FS_Product, LoopAssumption DEF Copies

\* What qBittorrent is told leaves torrents torrents.
LEMMA ToldTorrents ==
  ASSUME NEW t \in Torrent
  PROVE  /\ Halted(t) \in Torrent /\ Resumed(t) \in Torrent
         /\ Imported(t) \in Torrent /\ Rechecked(t) \in Torrent
         /\ [t EXCEPT !.cat = "own"] \in Torrent
  <1>1. /\ \A s \in States : [t EXCEPT !.state = s] \in Torrent
        /\ \A g \in SUBSET Tags : [t EXCEPT !.tags = g] \in Torrent
        /\ [t EXCEPT !.cat = "own"] \in Torrent
    BY DEF Torrent
  <1>2. {"stoppedDL", "stoppedUP", "downloading", "stalledUP", "checkingDL", "checkingUP"}
          \subseteq States
    BY DEF States, Complete, Seeding, Stopped, Untouched, Downloading
  <1>3. Halted(t) \in Torrent
    BY <1>1, <1>2 DEF Halted
  <1>4. Rechecked(t) \in Torrent
    BY <1>1, <1>2 DEF Rechecked
  <1>5. Resumed(t) \in Torrent
    <2>1. t.state \in States
      BY DEF Torrent
    <2> QED
      BY <1>1, <1>2, <2>1, Zenon DEF Resumed
  <1>6. Imported(t) \in Torrent
    <2>1. t.tags \union {"imported"} \in SUBSET Tags
      BY DEF Torrent, Tags
    <2> QED
      BY <1>1, <2>1 DEF Imported
  <1> QED
    BY <1>1, <1>3, <1>4, <1>5, <1>6

\* A batch that fails or not, and leaves the marks of its process as they are.
LEMMA QuietBatch ==
  ASSUME LoopTypeOK, Marks, NEW p \in Procs, NEW after, NEW m \in Memory, NEW n \in Nat,
         Fault(n), Proceed(p, after, m), pc[p] # "queue",
         m.delete = mem[p].delete, m.deleteAt = mem[p].deleteAt, m.remove = mem[p].remove,
         m.targets = mem[p].targets, m.seen = mem[p].seen, m.bad = mem[p].bad,
         m.confirmed = mem[p].confirmed,
         torrent' \in [Copies -> Torrent], UNCHANGED <<here, arrSide, history>>
  PROVE  LoopTypeOK' /\ Marks'
  <1>1. mem[p].confirmed = {}
    BY DEF Marks, Handover
  <1>2. spent' \in Spent /\ spent'.crashes = spent.crashes
    BY FaultStep DEF LoopTypeOK, Spent
  <1>3. /\ mem' = [mem EXCEPT ![p] = m] /\ pc' \in [Procs -> Batches]
        /\ \A q \in Procs : q # p => pc'[q] = pc[q]
    BY ProceedStep DEF LoopTypeOK, Batches
  <1>4. Marks'
    BY <1>1, <1>2, <1>3, KeepsMarks
  <1>5. LoopTypeOK'
    BY <1>2, <1>3 DEF LoopTypeOK, Spent, Batches, arrSide, history
  <1> QED
    BY <1>4, <1>5

\* Each of these batches keeps the invariant.
LEMMA ResumeStep ==
  ASSUME LoopTypeOK, Marks, NEW p \in Procs, ProcessResume(p)
  PROVE  LoopTypeOK' /\ Marks'
  <1>1. PICK reply \in Replies(mem[p].resume) :
           /\ Fault(Failures(reply))
           /\ Tell(Resumed, Served(mem[p].resume, reply))
           /\ Proceed(p, "resume", [mem[p] EXCEPT
                  !.resume = Kept(@, reply),
                  !.skipped = @ \union Held(mem[p].resume \ Kept(mem[p].resume, reply))])
    BY Zenon DEF ProcessResume
  <1> DEFINE S == mem[p].skipped \union Held(mem[p].resume \ Kept(mem[p].resume, reply))
             m1 == [mem[p] EXCEPT !.resume = Kept(mem[p].resume, reply)]
             m  == [m1 EXCEPT !.skipped = S]
  <1>2. mem[p] \in Memory
    BY DEF LoopTypeOK
  <1>3. mem[p].resume \subseteq Copies /\ mem[p].skipped \subseteq Hashes
    BY <1>2, MemoryFields, Zenon DEF Buckets, Notes
  <1>4. Kept(mem[p].resume, reply) \subseteq Copies /\ S \subseteq Hashes
    BY <1>3, HeldType DEF Kept
  <1>5. m \in Memory
    BY <1>2, <1>4, SetBucket, SetNote, Zenon DEF Buckets, Notes
  <1>6. /\ m.delete = mem[p].delete /\ m.deleteAt = mem[p].deleteAt /\ m.remove = mem[p].remove
        /\ m.targets = mem[p].targets /\ m.seen = mem[p].seen /\ m.bad = mem[p].bad
        /\ m.confirmed = mem[p].confirmed
    BY <1>2, Zenon DEF Memory, Buckets, Notes
  <1>7. Failures(reply) \in Nat
    BY <1>3, FailuresType
  <1>8. torrent' \in [Copies -> Torrent]
    BY <1>1, ToldTorrents DEF Tell, LoopTypeOK
  <1>9. Proceed(p, "resume", m)
    BY <1>1
  <1> QED
    BY <1>1, <1>5, <1>6, <1>7, <1>8, <1>9, QuietBatch DEF ProcessResume

LEMMA PausedStep ==
  ASSUME LoopTypeOK, Marks, NEW p \in Procs, ProcessPaused(p)
  PROVE  LoopTypeOK' /\ Marks'
  <1>1. PICK reply \in Replies(mem[p].pause) :
           /\ Fault(Failures(reply))
           /\ Tell(Halted, Served(mem[p].pause, reply))
           /\ Proceed(p, "pause", [mem[p] EXCEPT !.pause = Kept(@, reply)])
    BY Zenon DEF ProcessPaused
  <1> DEFINE m == [mem[p] EXCEPT !.pause = Kept(mem[p].pause, reply)]
  <1>2. mem[p] \in Memory
    BY DEF LoopTypeOK
  <1>3. mem[p].pause \subseteq Copies
    BY <1>2, MemoryFields, Zenon DEF Buckets
  <1>4. Kept(mem[p].pause, reply) \subseteq Copies
    BY <1>3 DEF Kept
  <1>5. m \in Memory
    BY <1>2, <1>4, SetBucket, Zenon DEF Buckets
  <1>6. /\ m.delete = mem[p].delete /\ m.deleteAt = mem[p].deleteAt /\ m.remove = mem[p].remove
        /\ m.targets = mem[p].targets /\ m.seen = mem[p].seen /\ m.bad = mem[p].bad
        /\ m.confirmed = mem[p].confirmed
    BY <1>2, Zenon DEF Memory, Buckets, Notes
  <1>7. Failures(reply) \in Nat
    BY <1>3, FailuresType
  <1>8. torrent' \in [Copies -> Torrent]
    BY <1>1, ToldTorrents DEF Tell, LoopTypeOK
  <1>9. Proceed(p, "pause", m)
    BY <1>1
  <1> QED
    BY <1>1, <1>5, <1>6, <1>7, <1>8, <1>9, QuietBatch DEF ProcessPaused

LEMMA ErroredStep ==
  ASSUME LoopTypeOK, Marks, NEW p \in Procs, ProcessErrored(p)
  PROVE  LoopTypeOK' /\ Marks'
  <1> DEFINE Back(t) == IF p = "recheck" THEN [t EXCEPT !.cat = "own"] ELSE t
  <1>1. PICK reply \in Replies(mem[p].recheck) :
           LET done == mem[p].recheck \ Kept(mem[p].recheck, reply)
           IN  /\ Fault(Failures(reply))
               /\ torrent' = [c \in Copies |->
                     IF c \notin Served(mem[p].recheck, reply) \intersect here THEN torrent[c]
                     ELSE IF c \in Of(done, mem[p].home) THEN Back(Rechecked(torrent[c]))
                     ELSE Rechecked(torrent[c])]
               /\ \E quiet \in Quiet(p, done) :
                     Proceed(p, "recheck", [mem[p] EXCEPT !.recheck = Kept(@, reply),
                                                !.skipped = @ \union quiet])
    BY Zenon DEF ProcessErrored
  <1> DEFINE done == mem[p].recheck \ Kept(mem[p].recheck, reply)
  <1>2. mem[p] \in Memory
    BY DEF LoopTypeOK
  <1>3. mem[p].recheck \subseteq Copies /\ mem[p].skipped \subseteq Hashes
    BY <1>2, MemoryFields, Zenon DEF Buckets, Notes
  <1>4. PICK quiet \in Quiet(p, done) :
           Proceed(p, "recheck", [mem[p] EXCEPT !.recheck = Kept(@, reply),
                                      !.skipped = @ \union quiet])
    BY <1>1, Zenon
  <1>5. quiet \subseteq Hashes /\ Kept(mem[p].recheck, reply) \subseteq Copies
    BY <1>3, HeldType DEF Quiet, Kept
  <1> DEFINE m1 == [mem[p] EXCEPT !.recheck = Kept(mem[p].recheck, reply)]
             m  == [m1 EXCEPT !.skipped = mem[p].skipped \union quiet]
  <1>6. m \in Memory
    BY <1>2, <1>3, <1>5, SetBucket, SetNote, Zenon DEF Buckets, Notes
  <1>7. /\ m.delete = mem[p].delete /\ m.deleteAt = mem[p].deleteAt /\ m.remove = mem[p].remove
        /\ m.targets = mem[p].targets /\ m.seen = mem[p].seen /\ m.bad = mem[p].bad
        /\ m.confirmed = mem[p].confirmed
    BY <1>2, Zenon DEF Memory, Buckets, Notes
  <1>8. Failures(reply) \in Nat
    BY <1>3, FailuresType
  <1>9. torrent' \in [Copies -> Torrent]
    <2>1. \A c \in Copies : /\ torrent[c] \in Torrent /\ Rechecked(torrent[c]) \in Torrent
                            /\ Back(Rechecked(torrent[c])) \in Torrent
      BY ToldTorrents DEF LoopTypeOK
    <2> QED
      BY <1>1, <2>1, Zenon
  <1>10. Proceed(p, "recheck", m)
    BY <1>4
  <1> QED
    BY <1>1, <1>6, <1>7, <1>8, <1>9, <1>10, QuietBatch DEF ProcessErrored

LEMMA FilesStep ==
  ASSUME LoopTypeOK, Marks, NEW p \in Procs, ProcessFilePriority(p)
  PROVE  LoopTypeOK' /\ Marks'
  <1>1. PICK reply \in Replies(mem[p].files) :
           /\ Fault(Failures(reply))
           /\ Proceed(p, "files", [mem[p] EXCEPT !.files = Kept(@, reply)])
    BY Zenon DEF ProcessFilePriority
  <1> DEFINE m == [mem[p] EXCEPT !.files = Kept(mem[p].files, reply)]
  <1>2. mem[p] \in Memory
    BY DEF LoopTypeOK
  <1>3. mem[p].files \subseteq Copies
    BY <1>2, MemoryFields, Zenon DEF Buckets
  <1>4. Kept(mem[p].files, reply) \subseteq Copies
    BY <1>3 DEF Kept
  <1>5. m \in Memory
    BY <1>2, <1>4, SetBucket, Zenon DEF Buckets
  <1>6. /\ m.delete = mem[p].delete /\ m.deleteAt = mem[p].deleteAt /\ m.remove = mem[p].remove
        /\ m.targets = mem[p].targets /\ m.seen = mem[p].seen /\ m.bad = mem[p].bad
        /\ m.confirmed = mem[p].confirmed
    BY <1>2, Zenon DEF Memory, Buckets, Notes
  <1>7. Failures(reply) \in Nat
    BY <1>3, FailuresType
  <1>8. torrent' \in [Copies -> Torrent] /\ UNCHANGED <<here, arrSide, history>>
    BY DEF ProcessFilePriority, client, LoopTypeOK
  <1>9. Proceed(p, "files", m)
    BY <1>1
  <1> QED
    BY <1>1, <1>5, <1>6, <1>7, <1>8, <1>9, QuietBatch DEF ProcessFilePriority

LEMMA ImportsStep ==
  ASSUME LoopTypeOK, Marks, NEW p \in Procs, ProcessImports(p)
  PROVE  LoopTypeOK' /\ Marks'
  <1>1. PICK result \in [mem[p].imports \ mem[p].sent -> {"done", "untagged", "failed"}] :
           LET scanned == {c \in DOMAIN result : result[c] # "failed"}
           IN  /\ Fault(Cardinality({c \in DOMAIN result : result[c] # "done"}))
               /\ torrent' = [c \in Copies |->
                     IF c \in scanned \intersect here /\ result[c] = "done"
                     THEN Imported(torrent[c]) ELSE torrent[c]]
               /\ Proceed(p, "imports", [mem[p] EXCEPT !.imports = {},
                                             !.sent = @ \union scanned,
                                             !.scanned = @ \union Held(scanned)])
    BY Zenon DEF ProcessImports
  <1> DEFINE scanned == {c \in DOMAIN result : result[c] # "failed"}
             m1 == [mem[p] EXCEPT !.imports = {}]
             m2 == [m1 EXCEPT !.sent = mem[p].sent \union scanned]
             m  == [m2 EXCEPT !.scanned = mem[p].scanned \union Held(scanned)]
  <1>2. mem[p] \in Memory
    BY DEF LoopTypeOK
  <1>3. /\ mem[p].imports \subseteq Copies /\ mem[p].sent \subseteq Copies
        /\ mem[p].scanned \subseteq Hashes
    BY <1>2, MemoryFields, Zenon DEF Buckets, Notes
  <1>4. scanned \subseteq Copies /\ Held(scanned) \subseteq Hashes
    BY <1>3, HeldType
  <1>5. m1 \in Memory
    BY <1>2, SetBucket, Zenon DEF Buckets
  <1>6. m2 \in Memory
    BY <1>3, <1>4, <1>5, SetBucket, Zenon DEF Buckets
  <1>7. m \in Memory
    BY <1>3, <1>4, <1>6, SetNote, Zenon DEF Notes
  <1>8. /\ m.delete = mem[p].delete /\ m.deleteAt = mem[p].deleteAt /\ m.remove = mem[p].remove
        /\ m.targets = mem[p].targets /\ m.seen = mem[p].seen /\ m.bad = mem[p].bad
        /\ m.confirmed = mem[p].confirmed
    BY <1>2, Zenon DEF Memory, Buckets, Notes
  <1>9. Cardinality({c \in DOMAIN result : result[c] # "done"}) \in Nat
    <2>1. {c \in DOMAIN result : result[c] # "done"} \in SUBSET Copies
      BY <1>3
    <2> QED
      BY <2>1, CopiesFinite, FS_Subset, FS_CardinalityType
  <1>10. torrent' \in [Copies -> Torrent]
    BY <1>1, ToldTorrents DEF LoopTypeOK
  <1>11. Proceed(p, "imports", m)
    BY <1>1
  <1> QED
    BY <1>1, <1>7, <1>8, <1>9, <1>10, <1>11, QuietBatch DEF ProcessImports

-----------------------------------------------------------------------------
(* The deletions, and what the Arr is told of them. *)

\* The memory m after a batch of deletions.
Deleted(m, stale, gone, sure, targets) ==
    [Evicted(m, stale) EXCEPT !.remove = Of(@, Hashes \ gone),
                              !.deleteAt = Of(@, Hashes \ gone),
                              !.confirmed = sure,
                              !.targets = targets]

Leaves(m, d, gone, sure, targets) ==
    /\ d \in Memory
    /\ d.delete = m.delete /\ d.bad = m.bad /\ d.seen = m.seen
    /\ d.remove = Of(m.remove, Hashes \ gone)
    /\ d.deleteAt = Of(m.deleteAt, Hashes \ gone)
    /\ d.confirmed = sure /\ d.targets = targets

\* It keeps its marks, and nothing of what is gone is pending.
LEMMA DeletedMemory ==
  ASSUME NEW m \in Memory, NEW stale \in SUBSET Hashes, NEW gone \in SUBSET Hashes,
         NEW sure \in SUBSET Hashes, NEW targets \in SUBSET Hashes
  PROVE  Leaves(m, Deleted(m, stale, gone, sure, targets), gone, sure, targets)
  <1>1. /\ m.cleaned \subseteq Hashes /\ m.scanned \subseteq Hashes /\ m.home \subseteq Hashes
        /\ m.remove \subseteq Copies /\ m.deleteAt \subseteq Copies
    BY MemoryFields, Zenon DEF Buckets, Notes
  <1> DEFINE e1 == [m  EXCEPT !.cleaned = m.cleaned \ stale]
             e2 == [e1 EXCEPT !.scanned = m.scanned \ stale]
             e  == [e2 EXCEPT !.home = m.home \ stale]
  <1>2. Evicted(m, stale) = e
    BY Zenon DEF Evicted
  <1>3. e \in Memory
    <2>1. e1 \in Memory
      BY <1>1, SetNote, Zenon DEF Notes
    <2>2. e2 \in Memory
      BY <1>1, <2>1, SetNote, Zenon DEF Notes
    <2> QED
      BY <1>1, <2>2, SetNote, Zenon DEF Notes
  <1>4. /\ e.delete = m.delete /\ e.bad = m.bad /\ e.seen = m.seen
        /\ e.remove = m.remove /\ e.deleteAt = m.deleteAt
    BY Zenon DEF Memory, Buckets, Notes
  <1> HIDE DEF e
  <1> DEFINE d1 == [e  EXCEPT !.remove = Of(e.remove, Hashes \ gone)]
             d2 == [d1 EXCEPT !.deleteAt = Of(e.deleteAt, Hashes \ gone)]
             d3 == [d2 EXCEPT !.confirmed = sure]
             d4 == [d3 EXCEPT !.targets = targets]
  <1>5. Deleted(m, stale, gone, sure, targets) = d4
    BY <1>2, Zenon DEF Deleted
  <1>6. \A S \in SUBSET Copies : Of(S, Hashes \ gone) \in SUBSET Copies
    BY DEF Of
  <1>7. d4 \in Memory
    <2>1. d1 \in Memory
      BY <1>1, <1>3, <1>4, <1>6, SetBucket, Zenon DEF Buckets
    <2>2. d2 \in Memory
      BY <1>1, <1>4, <1>6, <2>1, SetBucket, Zenon DEF Buckets
    <2>3. d3 \in Memory
      BY <2>2, SetNote, Zenon DEF Notes
    <2> QED
      BY <2>3, SetNote, Zenon DEF Notes
  <1>8. /\ d4.delete = e.delete /\ d4.bad = e.bad /\ d4.seen = e.seen
        /\ d4.remove = Of(e.remove, Hashes \ gone)
        /\ d4.deleteAt = Of(e.deleteAt, Hashes \ gone)
        /\ d4.confirmed = sure /\ d4.targets = targets
    BY <1>3, Zenon DEF Memory, Buckets, Notes
  <1> QED
    BY <1>4, <1>5, <1>7, <1>8 DEF Leaves

\* The deletions of p, given the replies of the instances and of the primary one.
ClearsAs(p, reply, last) ==
    LET m == mem[p]
        gone  == Gone(m, reply)
        sure  == gone \union (IF last = "ok" THEN Rest(m, reply) ELSE {})
        dead  == Served(Doomed(m), reply) \union
                 (IF last = "failed" THEN {} ELSE {Primary} \X Rest(m, reply))
        stale == IF p = "arr" \/ Rest(m, reply) # {} THEN sure ELSE {}
    IN  /\ Fault(Failures(reply) + IF last = "ok" THEN 0 ELSE 1)
        /\ here' = here \ dead
        /\ erased' = erased \union ({p} \X (dead \intersect here))
        /\ Proceed(p, "failed", [Evicted(m, stale) EXCEPT
                                    !.remove = Of(@, Hashes \ gone),
                                    !.deleteAt = Of(@, Hashes \ gone),
                                    !.confirmed = sure,
                                    !.targets = Targets(m, gone, sure)])

\* What was surely deleted is pending nowhere, the Arr is told of what was condemned of it,
\* and only marked copies left their instances.
LEMMA FailedStep ==
  ASSUME LoopTypeOK, Marks, NEW p \in Procs, ProcessFailed(p)
  PROVE  LoopTypeOK' /\ Marks'
  <1> DEFINE m == mem[p]
  <1>1. PICK reply \in Replies(Doomed(m)) :
           \E last \in IF Rest(m, reply) = {} THEN {"ok"} ELSE {"ok", "failed", "lost"} :
               ClearsAs(p, reply, last)
    BY Zenon DEF ProcessFailed, ClearsAs
  <1>2. PICK last \in {"ok", "failed", "lost"} : ClearsAs(p, reply, last)
    BY <1>1
  <1> DEFINE gone  == Gone(m, reply)
             rest  == Rest(m, reply)
             sure  == gone \union (IF last = "ok" THEN rest ELSE {})
             dead  == Served(Doomed(m), reply) \union
                          (IF last = "failed" THEN {} ELSE {Primary} \X rest)
             stale == IF p = "arr" \/ rest # {} THEN sure ELSE {}
             d == Deleted(m, stale, gone, sure, Targets(m, gone, sure))
             n == Failures(reply) + IF last = "ok" THEN 0 ELSE 1
  <1>3. /\ Proceed(p, "failed", d) /\ here' = here \ dead
        /\ erased' = erased \union ({p} \X (dead \intersect here))
        /\ Fault(n)
    BY <1>2, Zenon DEF ClearsAs, Deleted
  <1>4. m \in Memory
    BY DEF LoopTypeOK
  <1>5. /\ m.remove \subseteq Copies /\ m.deleteAt \subseteq Copies
        /\ m.delete \subseteq Hashes /\ m.bad \subseteq Hashes
    BY <1>4, MemoryFields, Zenon DEF Buckets, Notes
  <1>6. Doomed(m) = m.remove \union m.deleteAt /\ Doomed(m) \in SUBSET Copies
    BY <1>5 DEF Doomed
  <1>7. gone \subseteq Hashes /\ rest \subseteq Hashes
    BY <1>5, <1>6, HeldType DEF Gone, Kept, Rest, Marked
  <1>8. sure \subseteq Hashes /\ stale \subseteq Hashes
    BY <1>7
  <1>9. Targets(m, gone, sure) = sure \intersect (m.delete \union m.bad)
    BY DEF Targets, Marked
  <1>10. Leaves(m, d, gone, sure, Targets(m, gone, sure))
    <2>1. Targets(m, gone, sure) \subseteq Hashes
      BY <1>8, <1>9
    <2> HIDE DEF gone, sure, stale
    <2> QED
      BY <1>4, <1>7, <1>8, <2>1, DeletedMemory
  <1> HIDE DEF d
  <1>11. /\ d \in Memory
         /\ d.delete = m.delete /\ d.bad = m.bad /\ d.seen = m.seen
         /\ d.remove = Of(m.remove, Hashes \ gone)
         /\ d.deleteAt = Of(m.deleteAt, Hashes \ gone)
         /\ d.confirmed = sure /\ d.targets = Targets(m, gone, sure)
    BY <1>10, Zenon DEF Leaves
  <1>12. n \in Nat
    BY <1>6, FailuresType
  <1>13. spent' \in Spent /\ spent'.crashes = spent.crashes
    BY <1>3, <1>12, FaultStep DEF LoopTypeOK, Spent
  <1>14. /\ mem' = [mem EXCEPT ![p] = d]
         /\ pc' \in [Procs -> Batches]
         /\ \A q \in Procs : q # p => pc'[q] = pc[q]
         /\ d.confirmed # {} => pc'[p] = "queue"
    BY <1>3, ProceedStep DEF LoopTypeOK, Batches
  <1>15. mem'[p] = d /\ \A q \in Procs : q # p => mem'[q] = mem[q]
    BY <1>14 DEF LoopTypeOK
  <1>16. UNCHANGED <<torrent, queue, warned, blocked, condemned, delayed, missed>>
    BY DEF ProcessFailed, arrSide
  <1>17. Mourned' = Mourned
    BY <1>16 DEF Mourned
  <1>18. LoopTypeOK'
    <2>1. mem' \in [Procs -> Memory]
      BY <1>11, <1>14 DEF LoopTypeOK
    <2>2. here' \subseteq Copies /\ erased' \subseteq Procs \X Copies
      BY <1>3 DEF LoopTypeOK
    <2> QED
      BY <1>13, <1>14, <1>16, <2>1, <2>2 DEF LoopTypeOK, Spent, Batches
  <1>19. Reasons'
    <2>1. d.remove \subseteq m.remove /\ d.deleteAt \subseteq m.deleteAt
      BY <1>11 DEF Of
    <2>2. d.targets \subseteq m.delete \union m.bad
      BY <1>9, <1>11
    <2> QED
      BY <1>11, <1>15, <1>16, <1>17, <2>1, <2>2 DEF Marks, Reasons
  <1>20. Handover'
    <2>1. sure \intersect Held(d.remove \union d.deleteAt) = {}
      <3>1. d.remove \union d.deleteAt = Of(Doomed(m), Hashes \ gone)
        BY <1>6, <1>11 DEF Of
      <3>2. Held(Of(Doomed(m), Hashes \ gone)) \intersect gone = {}
        BY DEF Held, Of
      <3>3. Held(Of(Doomed(m), Hashes \ gone)) \intersect rest = {}
        BY DEF Rest
      <3> QED
        BY <3>1, <3>2, <3>3
    <2>2. sure \intersect d.delete \subseteq d.targets
      BY <1>9, <1>11
    <2>3. /\ mem'[p].confirmed = sure
          /\ mem'[p].confirmed # {} => pc'[p] = "queue"
      BY <1>11, <1>14, <1>15
    <2>4. ASSUME NEW q \in Procs, q # p
          PROVE  mem'[q] = mem[q] /\ pc'[q] = pc[q]
      BY <1>14, <1>15, <2>4
    <2> HIDE DEF sure
    <2>5. /\ mem'[p].confirmed \intersect Held(mem'[p].remove \union mem'[p].deleteAt) = {}
          /\ mem'[p].confirmed \intersect mem'[p].delete \subseteq mem'[p].targets
      BY <1>15, <2>1, <2>2, <2>3
    <2>6. Handover
      BY DEF Marks
    <2> HIDE DEF Marks
    <2> QED
      BY <2>3, <2>4, <2>5, <2>6, Zenon DEF Handover
  <1>21. PendingIsMarked'
    <2>1. Held(d.deleteAt) \subseteq Held(m.deleteAt)
      BY <1>11 DEF Held, Of
    <2> QED
      BY <1>11, <1>15, <2>1 DEF Marks, PendingIsMarked
  <1>22. mem'["arr"].delete = mem["arr"].delete /\ mem'["arr"].seen = mem["arr"].seen
    BY <1>11, <1>15 DEF Procs
  <1>23. StillMarked' /\ Cached'
    BY <1>13, <1>16, <1>22 DEF Marks, StillMarked, Cached
  <1>24. OnlyCondemnedBlocked'
    BY <1>16, <1>17 DEF Marks, OnlyCondemnedBlocked
  <1>25. ErasedWasMarked'
    <2>1. \A c \in dead : c[1] # Primary => c \in Doomed(m)
      BY DEF Served
    <2>2. Doomed(m) \subseteq Mourned \union missed
      BY <1>6 DEF Marks, Reasons
    <2> QED
      BY <1>3, <1>16, <1>17, <2>1, <2>2 DEF Marks, ErasedWasMarked
  <1> QED
    BY <1>18, <1>19, <1>20, <1>21, <1>23, <1>24, <1>25 DEF Marks

\* The memory m after the Arr was asked about what it is to blocklist.
Informed(m, told) == [m EXCEPT !.seen = @ \ (told \ queue), !.confirmed = {}, !.targets = {}]
Settled(m, told) == [Informed(m, told) EXCEPT !.delete = @ \ m.confirmed,
                                              !.bad = @ \ m.confirmed]

Forgets(m, d, told) ==
    /\ d \in Memory
    /\ d.confirmed = {} /\ d.targets = {}
    /\ d.seen = m.seen \ (told \ queue)
    /\ d.remove = m.remove /\ d.deleteAt = m.deleteAt

\* It forgets what was deleted, and when the Arr was told of all of it the marks too.
LEMMA InformedMemory ==
  ASSUME NEW m \in Memory, NEW told
  PROVE  /\ Forgets(m, Informed(m, told), told)
         /\ Informed(m, told).delete = m.delete /\ Informed(m, told).bad = m.bad
         /\ Forgets(m, Settled(m, told), told)
         /\ Settled(m, told).delete = m.delete \ m.confirmed
         /\ Settled(m, told).bad = m.bad \ m.confirmed
  <1> DEFINE i1 == [m EXCEPT !.seen = m.seen \ (told \ queue)]
             i2 == [i1 EXCEPT !.confirmed = {}]
             i  == [i2 EXCEPT !.targets = {}]
  <1>1. /\ m.seen \subseteq Hashes /\ m.delete \subseteq Hashes /\ m.bad \subseteq Hashes
    BY MemoryFields, Zenon DEF Notes
  <1>2. Informed(m, told) = i
    BY Zenon DEF Informed
  <1>3. i \in Memory
    <2>1. i1 \in Memory
      BY <1>1, SetNote, Zenon DEF Notes
    <2>2. i2 \in Memory
      BY <2>1, SetNote, Zenon DEF Notes
    <2> QED
      BY <2>2, SetNote, Zenon DEF Notes
  <1>4. /\ i.delete = m.delete /\ i.bad = m.bad
        /\ i.confirmed = {} /\ i.targets = {}
        /\ i.seen = m.seen \ (told \ queue)
        /\ i.remove = m.remove /\ i.deleteAt = m.deleteAt
    BY Zenon DEF Memory, Buckets, Notes
  <1> HIDE DEF i
  <1> DEFINE s1 == [i EXCEPT !.delete = i.delete \ m.confirmed]
             s  == [s1 EXCEPT !.bad = i.bad \ m.confirmed]
  <1>5. Settled(m, told) = s
    BY <1>2, Zenon DEF Settled
  <1>6. s \in Memory
    <2>1. s1 \in Memory
      BY <1>1, <1>3, <1>4, SetNote, Zenon DEF Notes
    <2> QED
      BY <1>1, <1>4, <2>1, SetNote, Zenon DEF Notes
  <1>7. /\ s.delete = i.delete \ m.confirmed /\ s.bad = i.bad \ m.confirmed
        /\ s.confirmed = i.confirmed /\ s.targets = i.targets /\ s.seen = i.seen
        /\ s.remove = i.remove /\ s.deleteAt = i.deleteAt
    BY <1>3, Zenon DEF Memory, Buckets, Notes
  <1> HIDE DEF s
  <1> QED
    BY <1>2, <1>3, <1>4, <1>5, <1>6, <1>7 DEF Forgets

\* The call to the Arr, of which p told.
Tells(p, told) ==
    LET m == mem[p]
        whole == told = Entries(m)
    IN  /\ Fault(IF whole THEN 0 ELSE 1)
        /\ Blocklist(told)
        /\ here' = here \ {<<ClientOf[h], h>> : h \in told \intersect queue}
        /\ IF whole THEN Proceed(p, "queue", Settled(m, told)) ELSE Abandon(p, Informed(m, told))

\* What was condemned is told of as long as it is in the Arr's queue; only then it is not
\* marked any longer.
LEMMA QueueStep ==
  ASSUME LoopTypeOK, Marks, NEW p \in Procs, ProcessQueue(p)
  PROVE  LoopTypeOK' /\ Marks'
  <1> DEFINE m == mem[p]
  <1>1. PICK told \in SUBSET Entries(m) : Tells(p, told)
    BY Zenon DEF ProcessQueue, Tells, Informed, Settled
  <1> DEFINE whole == told = Entries(m)
             d == IF whole THEN Settled(m, told) ELSE Informed(m, told)
             n == IF whole THEN 0 ELSE 1
  <1>2. /\ Fault(n) /\ n \in Nat
        /\ blocked' = blocked \union (told \intersect queue)
        /\ queue' = queue \ told
        /\ here' \subseteq here
    BY <1>1 DEF Tells, Blocklist
  <1>3. /\ whole => Proceed(p, "queue", d)
        /\ ~whole => Abandon(p, d)
    BY <1>1 DEF Tells
  <1>4. m \in Memory
    BY DEF LoopTypeOK
  <1>5. /\ Forgets(m, d, told)
        /\ d.delete \subseteq m.delete /\ d.bad \subseteq m.bad
        /\ d.delete = IF whole THEN m.delete \ m.confirmed ELSE m.delete
    <2>1. /\ Forgets(m, Informed(m, told), told)
          /\ Informed(m, told).delete = m.delete /\ Informed(m, told).bad = m.bad
          /\ Forgets(m, Settled(m, told), told)
          /\ Settled(m, told).delete = m.delete \ m.confirmed
          /\ Settled(m, told).bad = m.bad \ m.confirmed
      BY <1>4, InformedMemory, Zenon
    <2>2. CASE whole
      BY <2>1, <2>2
    <2>3. CASE ~whole
      BY <2>1, <2>3
    <2> QED
      BY <2>2, <2>3
  <1> HIDE DEF d
  <1>6. /\ d \in Memory /\ d.confirmed = {} /\ d.targets = {}
        /\ d.seen = m.seen \ (told \ queue)
        /\ d.remove = m.remove /\ d.deleteAt = m.deleteAt
    BY <1>5, Zenon DEF Forgets
  <1>7. spent' \in Spent /\ spent'.crashes = spent.crashes
    BY <1>2, FaultStep DEF LoopTypeOK, Spent
  <1>8. mem' = [mem EXCEPT ![p] = d] /\ pc' \in [Procs -> Batches]
    <2>1. CASE whole
      BY <1>3, <2>1, ProceedStep DEF LoopTypeOK, Batches
    <2>2. CASE ~whole
      BY <1>3, <2>2 DEF Abandon, LoopTypeOK, Batches
    <2> QED
      BY <2>1, <2>2
  <1>9. \A q \in Procs : q # p => pc'[q] = pc[q]
    <2>1. CASE whole
      BY <1>3, <2>1, ProceedStep DEF LoopTypeOK, Batches
    <2>2. CASE ~whole
      BY <1>3, <2>2 DEF Abandon, LoopTypeOK
    <2> QED
      BY <2>1, <2>2
  <1>10. mem'[p] = d /\ \A q \in Procs : q # p => mem'[q] = mem[q]
    BY <1>8 DEF LoopTypeOK
  <1>11. UNCHANGED <<torrent, warned, condemned, delayed, missed, erased>>
    BY DEF ProcessQueue, history
  <1>12. Mourned' = Mourned
    BY <1>11 DEF Mourned
  <1>13. told \subseteq m.targets /\ told \subseteq m.seen
    BY DEF Entries
  <1>14. LoopTypeOK'
    <2>1. mem' \in [Procs -> Memory]
      BY <1>6, <1>8 DEF LoopTypeOK
    <2>2. queue' \subseteq Hashes /\ blocked' \subseteq Hashes
      BY <1>2 DEF LoopTypeOK
    <2> QED
      BY <1>2, <1>7, <1>8, <1>11, <2>1, <2>2 DEF LoopTypeOK, Spent, Batches
  <1>15. Reasons'
    BY <1>5, <1>6, <1>10, <1>11, <1>12 DEF Marks, Reasons
  <1>16. Handover'
    BY <1>6, <1>9, <1>10 DEF Marks, Handover
  <1>17. PendingIsMarked'
    <2>1. Held(m.deleteAt) \subseteq Held(m.remove \union m.deleteAt)
      BY DEF Held
    <2>2. Held(d.deleteAt) \subseteq d.delete
      BY <1>5, <1>6, <2>1 DEF Marks, PendingIsMarked, Handover
    <2> QED
      BY <1>10, <2>2 DEF Marks, PendingIsMarked
  <1>18. StillMarked'
    <2>1. SUFFICES ASSUME spent.crashes = 0, NEW c \in Copies, <<"arr", c>> \in condemned,
                          Hash(c) \in queue, Hash(c) \notin told
                   PROVE  Hash(c) \in mem'["arr"].delete
      BY <1>2, <1>7, <1>11 DEF StillMarked
    <2>2. Hash(c) \in mem["arr"].delete /\ Hash(c) \in mem["arr"].seen
      BY <2>1 DEF Marks, StillMarked, Cached
    <2>3. CASE p = "arr" /\ whole
      <3>1. Hash(c) \notin m.confirmed
        BY <2>1, <2>2, <2>3 DEF Marks, Handover, Entries
      <3> QED
        BY <1>5, <1>10, <2>2, <2>3, <3>1
    <2>4. CASE p = "arr" /\ ~whole
      BY <1>5, <1>10, <2>2, <2>4
    <2>5. CASE p # "arr"
      BY <1>10, <2>2, <2>5 DEF Procs
    <2> QED
      BY <2>3, <2>4, <2>5
  <1>19. Cached'
    <2>1. SUFFICES ASSUME spent.crashes = 0, \E c \in Copies : <<"arr", c>> \in condemned
                   PROVE  queue \ told \subseteq mem'["arr"].seen
      BY <1>2, <1>7, <1>11 DEF Cached
    <2>2. queue \subseteq mem["arr"].seen
      BY <2>1 DEF Marks, Cached
    <2> QED
      BY <1>6, <1>10, <2>2 DEF Procs
  <1>20. OnlyCondemnedBlocked'
    <2>1. told \subseteq Held(Mourned) \union warned
      BY <1>13 DEF Marks, Reasons
    <2>2. Held(Mourned) \subseteq Held(Mourned \union delayed)
      BY DEF Held
    <2> QED
      BY <1>2, <1>11, <1>12, <2>1, <2>2 DEF Marks, OnlyCondemnedBlocked
  <1>21. ErasedWasMarked'
    BY <1>11, <1>12 DEF Marks, ErasedWasMarked
  <1> QED
    BY <1>14, <1>15, <1>16, <1>17, <1>18, <1>19, <1>20, <1>21 DEF Marks

-----------------------------------------------------------------------------
(* The fetch and the decisions. *)

\* The tags after the decision are tags.
LEMMA TagsAfterType ==
  ASSUME NEW s, NEW k, NEW t, t.tags \subseteq Tags
  PROVE  TagsAfter(s, k, t) \subseteq Tags
  <1> DEFINE seeds == /\ "super" \notin t.is /\ t.state # "forcedUP" /\ "known" \in t.is
                      /\ "paused" \notin t.tags /\ LeaveAlone(s, k, t)
             asks  == "super" \notin t.is /\ t.state # "forcedUP" /\ "known" \in t.is
             t1 == IF seeds THEN t.tags \union {"seeding"}
                   ELSE IF asks THEN t.tags \ {"seeding"} ELSE t.tags
             t2 == IF TagStalled(s, t) THEN t1 \union {"stalled"}
                   ELSE IF UntagStalled(s, t) THEN t1 \ {"stalled"} ELSE t1
  <1>1. TagsAfter(s, k, t) = IF "ignored" \in t.tags THEN t2 \ {"seeding", "paused"} ELSE t2
    BY Zenon DEF TagsAfter
  <1>2. t1 \subseteq Tags
    <2> HIDE DEF seeds, asks
    <2> QED
      BY DEF Tags
  <1> HIDE DEF t1
  <1>3. t2 \subseteq Tags
    BY <1>2 DEF Tags
  <1> HIDE DEF t2
  <1> QED
    BY <1>1, <1>3

\* The memory r after the Arr's queue and warnings were read into m.
Reads(p, m, r) ==
    /\ r \in Memory
    /\ r.delete = m.delete /\ r.deleteAt = m.deleteAt /\ r.remove = m.remove
    /\ r.confirmed = m.confirmed /\ r.targets = m.targets
    /\ r.bad \subseteq m.bad \union warned
    /\ r.seen = IF p # "arr" \/ queue = {} THEN m.seen ELSE queue

\* It keeps the marks, whatever is skipped from now on.
LEMMA RefreshedMemory ==
  ASSUME LoopTypeOK, NEW p \in Procs, NEW m \in Memory, NEW kept \in SUBSET Hashes
  PROVE  Reads(p, m, Refreshed(p, [m EXCEPT !.skipped = kept]))
  <1> DEFINE k == [m EXCEPT !.skipped = kept]
             k1 == [k EXCEPT !.seen = IF queue = {} THEN k.seen ELSE queue]
             k2 == [k1 EXCEPT !.bad = k.bad \union warned]
  <1>1. k \in Memory
    BY SetNote, Zenon DEF Notes
  <1>2. /\ k.delete = m.delete /\ k.deleteAt = m.deleteAt /\ k.remove = m.remove
        /\ k.confirmed = m.confirmed /\ k.targets = m.targets
        /\ k.bad = m.bad /\ k.seen = m.seen
    BY Zenon DEF Memory, Buckets, Notes
  <1> HIDE DEF k
  <1>3. k.seen \subseteq Hashes /\ k.bad \subseteq Hashes
    BY <1>1, MemoryFields, Zenon DEF Notes
  <1>4. k2 \in Memory
    <2>1. (IF queue = {} THEN k.seen ELSE queue) \subseteq Hashes /\ k.bad \union warned \subseteq Hashes
      BY <1>3 DEF LoopTypeOK
    <2>2. k1 \in Memory
      BY <1>1, <2>1, SetNote, Zenon DEF Notes
    <2> QED
      BY <2>1, <2>2, SetNote, Zenon DEF Notes
  <1>5. /\ k2.delete = k.delete /\ k2.deleteAt = k.deleteAt /\ k2.remove = k.remove
        /\ k2.confirmed = k.confirmed /\ k2.targets = k.targets
        /\ k2.bad = k.bad \union warned
        /\ k2.seen = IF queue = {} THEN k.seen ELSE queue
    BY <1>1, Zenon DEF Memory, Buckets, Notes
  <1>6. Refreshed(p, k) = IF p # "arr" THEN k ELSE k2
    BY Zenon DEF Refreshed
  <1> HIDE DEF k2
  <1>7. Refreshed(p, k) = Refreshed(p, [m EXCEPT !.skipped = kept])
    BY DEF k
  <1> DEFINE r == Refreshed(p, k)
  <1>8. Reads(p, m, r)
    <2>1. CASE p # "arr"
      BY <1>1, <1>2, <1>6, <2>1 DEF Reads
    <2>2. CASE p = "arr"
      BY <1>2, <1>4, <1>5, <1>6, <2>2 DEF Reads
    <2> QED
      BY <2>1, <2>2
  <1> QED
    BY <1>7, <1>8

\* Condemning more copies adds them to those that are mourned.
LEMMA MournedGrows ==
  ASSUME NEW p, NEW T, condemned' = condemned \union ({p} \X T)
  PROVE  Mourned' = Mourned \union T
  <1>1. {e[2] : e \in {p} \X T} = T
    <2>1. \A t \in T : <<p, t>> \in {p} \X T /\ <<p, t>>[2] = t
      OBVIOUS
    <2>2. T \subseteq {e[2] : e \in {p} \X T}
      BY <2>1
    <2>3. {e[2] : e \in {p} \X T} \subseteq T
      OBVIOUS
    <2> QED
      BY <2>2, <2>3
  <1> DEFINE U == {p} \X T
  <1> HIDE DEF U
  <1>2. {e[2] : e \in condemned \union U} = {e[2] : e \in condemned} \union {e[2] : e \in U}
    OBVIOUS
  <1>3. Mourned' = {e[2] : e \in condemned \union U}
    BY DEF Mourned, U
  <1> QED
    BY <1>1, <1>2, <1>3 DEF Mourned, U

\* An iteration of p that has fetched, with the memory m, and looked at the copies, of which
\* some get new tags; n calls fail.
Decides(p, m, looked, tagged, whole, n) ==
    /\ Fault(n)
    /\ Retag(p, m, tagged)
    /\ Report(p, m, looked)
    /\ Conclude(p, m, looked, whole)

\* What is condemned is marked, whether it is deleted or not, and what is reported to the
\* Arr at once was put on the stalled delay.
LEMMA DecidesStep ==
  ASSUME LoopTypeOK, Marks, NEW p \in Procs, pc[p] = "fetch", NEW kept \in SUBSET Hashes,
         NEW looked \in SUBSET Copies, NEW tagged \in SUBSET Copies, NEW whole, NEW n \in Nat,
         Decides(p, Refreshed(p, [mem[p] EXCEPT !.skipped = kept]), looked, tagged, whole, n),
         UNCHANGED <<warned, erased>>
  PROVE  LoopTypeOK' /\ Marks'
  <1> DEFINE m == Refreshed(p, [mem[p] EXCEPT !.skipped = kept])
             hashes == IF Setting.reSearch
                       THEN m.seen \intersect
                            Held({c \in looked : TagStalled(Setting, Seen(p, m, c))}) ELSE {}
             waits == {c \in looked : TagStalled(Setting, Seen(p, m, c))}
             verdicts == {<<v[1], VerdictOf(v[2], FilesOf[Hash(v[1])])>> :
                            v \in {<<c, Seen(p, m, c)>> : c \in looked}}
             doomed == Given(verdicts, {"delete", "empty"})
             gone == Given(verdicts, {"remove"})
             d == Decided(p, m, verdicts)
  <1>1. /\ mem[p] \in Memory
        /\ mem[p].confirmed = {}
    BY DEF LoopTypeOK, Marks, Handover
  <1>2. /\ m \in Memory
        /\ m.delete = mem[p].delete /\ m.deleteAt = mem[p].deleteAt /\ m.remove = mem[p].remove
        /\ m.confirmed = mem[p].confirmed /\ m.targets = mem[p].targets
        /\ m.bad \subseteq mem[p].bad \union warned
        /\ m.seen = IF p # "arr" \/ queue = {} THEN mem[p].seen ELSE queue
    <2>1. Reads(p, mem[p], m)
      BY <1>1, RefreshedMemory
    <2> HIDE DEF m
    <2> QED
      BY <2>1, Zenon DEF Reads
  <1>3. /\ Fault(n) /\ Retag(p, m, tagged) /\ Report(p, m, looked)
        /\ Conclude(p, m, looked, whole)
    BY Zenon DEF Decides
  <1> HIDE DEF m
  <1>4. /\ blocked' = blocked \union (hashes \intersect queue)
        /\ queue' = queue \ hashes
        /\ here' = here
    BY <1>3, Zenon DEF Report, Blocklist
  <1>5. /\ IF whole THEN Proceed(p, "fetch", d) ELSE Abandon(p, d)
        /\ condemned' = condemned \union ({p} \X doomed)
        /\ delayed' = delayed \union waits
        /\ missed' = missed \union gone
    BY <1>3, Zenon DEF Conclude
  <1>6. \A v \in verdicts : v[1] \in Copies
    OBVIOUS
  <1>7. doomed \subseteq Copies /\ gone \subseteq Copies
    BY <1>6 DEF Given
  <1>8. hashes \subseteq Held(waits)
    OBVIOUS
  <1>9. waits \subseteq Copies
    OBVIOUS
  <1> HIDE DEF hashes, waits, verdicts
  <1>10. Adds(m, d, verdicts)
    BY <1>2, <1>6, DecidedMarks
  <1> HIDE DEF d
  <1>11. /\ d \in Memory
         /\ d.delete = m.delete \union Held(doomed)
         /\ d.deleteAt = m.deleteAt \union doomed
         /\ d.remove = m.remove \union gone
         /\ d.bad = m.bad /\ d.confirmed = m.confirmed /\ d.targets = m.targets
         /\ d.seen = m.seen
    BY <1>10, Zenon DEF Adds
  <1> HIDE DEF d, doomed, gone
  <1>12. spent' \in Spent /\ spent'.crashes = spent.crashes
    BY <1>3, FaultStep DEF LoopTypeOK, Spent
  <1>13. mem' = [mem EXCEPT ![p] = d] /\ pc' \in [Procs -> Batches]
    <2>1. CASE whole
      BY <1>5, <2>1, ProceedStep DEF LoopTypeOK, Batches
    <2>2. CASE ~whole
      BY <1>5, <2>2 DEF Abandon, LoopTypeOK, Batches
    <2> QED
      BY <2>1, <2>2
  <1>14. \A q \in Procs : q # p => pc'[q] = pc[q]
    <2>1. CASE whole
      BY <1>5, <2>1, ProceedStep DEF LoopTypeOK, Batches
    <2>2. CASE ~whole
      BY <1>5, <2>2 DEF Abandon, LoopTypeOK
    <2> QED
      BY <2>1, <2>2
  <1>15. mem'[p] = d /\ \A q \in Procs : q # p => mem'[q] = mem[q]
    BY <1>13 DEF LoopTypeOK
  <1>16. Mourned' = Mourned \union doomed
    <2>1. condemned' = condemned \union ({p} \X doomed)
      BY <1>5
    <2> QED
      BY <2>1, MournedGrows, Zenon
  <1>17. LoopTypeOK'
    <2>1. mem' \in [Procs -> Memory]
      BY <1>11, <1>13 DEF LoopTypeOK
    <2>2. queue' \subseteq Hashes /\ blocked' \subseteq Hashes
      BY <1>4 DEF LoopTypeOK
    <2>3. torrent' \in [Copies -> Torrent]
      <3>1. \A c \in Copies : [torrent[c] EXCEPT !.tags = TagsAfter(Setting, Tracker, Seen(p, m, c))]
                                \in Torrent
        <4>1. TAKE c \in Copies
        <4>2. torrent[c] \in Torrent
          BY DEF LoopTypeOK
        <4>3. Seen(p, m, c).tags = torrent[c].tags
          BY <4>2, Zenon DEF Seen, Torrent
        <4>4. TagsAfter(Setting, Tracker, Seen(p, m, c)) \subseteq Tags
          BY <4>2, <4>3, TagsAfterType DEF Torrent
        <4> QED
          BY <4>2, <4>4 DEF Torrent
      <3> QED
        BY <1>3, <3>1 DEF Retag, LoopTypeOK
    <2>4. /\ condemned' \subseteq Procs \X Copies
          /\ delayed' \subseteq Copies /\ missed' \subseteq Copies
      BY <1>5, <1>7, <1>9 DEF LoopTypeOK
    <2> QED
      BY <1>4, <1>12, <1>13, <2>1, <2>2, <2>3, <2>4 DEF LoopTypeOK, Spent, Batches
  <1>18. Reasons'
    <2>1. Held(Mourned') = Held(Mourned) \union Held(doomed)
      BY <1>16 DEF Held
    <2>2. /\ d.delete \subseteq Held(Mourned')
          /\ d.bad \subseteq warned
          /\ d.targets \subseteq Held(Mourned') \union warned
          /\ d.remove \subseteq missed'
          /\ d.deleteAt \subseteq Mourned'
      BY <1>2, <1>5, <1>11, <1>16, <2>1 DEF Marks, Reasons
    <2> QED
      BY <1>5, <1>15, <1>16, <2>1, <2>2 DEF Marks, Reasons
  <1>19. Handover'
    <2>1. mem'[p].confirmed = {}
      BY <1>1, <1>2, <1>11, <1>15
    <2>2. ASSUME NEW q \in Procs, q # p
          PROVE  mem'[q] = mem[q] /\ pc'[q] = pc[q]
      BY <1>14, <1>15, <2>2
    <2>3. {} \intersect Held(mem'[p].remove \union mem'[p].deleteAt) = {}
          /\ {} \intersect mem'[p].delete \subseteq mem'[p].targets
      OBVIOUS
    <2> QED
      BY <2>1, <2>2, <2>3, Zenon DEF Marks, Handover
  <1>20. PendingIsMarked'
    <2>1. Held(d.deleteAt) = Held(m.deleteAt) \union Held(doomed)
      BY <1>11 DEF Held
    <2> QED
      BY <1>2, <1>11, <1>15, <2>1 DEF Marks, PendingIsMarked
  <1>21. StillMarked'
    <2>1. SUFFICES ASSUME spent.crashes = 0, NEW c \in Copies, <<"arr", c>> \in condemned',
                          Hash(c) \in queue
                   PROVE  Hash(c) \in mem'["arr"].delete
      BY <1>4, <1>12 DEF StillMarked
    <2>2. CASE <<"arr", c>> \in condemned
      BY <1>2, <1>11, <1>15, <2>1, <2>2 DEF Marks, StillMarked, Procs
    <2>3. CASE p = "arr" /\ c \in doomed
      BY <1>11, <1>15, <2>3 DEF Held
    <2> QED
      BY <1>5, <2>1, <2>2, <2>3
  <1>22. Cached'
    <2>1. SUFFICES ASSUME spent.crashes = 0, NEW c \in Copies, <<"arr", c>> \in condemned'
                   PROVE  queue' \subseteq mem'["arr"].seen
      BY <1>12 DEF Cached
    <2>2. CASE p = "arr"
      BY <1>2, <1>4, <1>11, <1>15, <2>2
    <2>3. CASE p # "arr"
      BY <1>4, <1>5, <1>15, <2>1, <2>3 DEF Marks, Cached, Procs
    <2> QED
      BY <2>2, <2>3
  <1>23. OnlyCondemnedBlocked'
    <2>1. Held(Mourned' \union delayed') = Held(Mourned \union delayed) \union Held(doomed) \union Held(waits)
      BY <1>5, <1>16 DEF Held
    <2> QED
      BY <1>4, <1>8, <2>1 DEF Marks, OnlyCondemnedBlocked
  <1>24. ErasedWasMarked'
    BY <1>5, <1>16 DEF Marks, ErasedWasMarked
  <1> QED
    BY <1>17, <1>18, <1>19, <1>20, <1>21, <1>22, <1>23, <1>24 DEF Marks

\* An iteration of p that has fetched the copies.
Fetches(p, reached, copies, m) ==
    /\ copies # {}
    /\ \E looked \in SUBSET copies :
       \E tagged \in {looked} \union {looked \union {c} : c \in copies \ looked} :
          Decides(p, m, looked, tagged, looked = copies,
                  Cardinality(Instances \ reached) + IF looked = copies THEN 0 ELSE 1)

\* An iteration's fetch and decisions keep the invariant.
LEMMA FetchStep ==
  ASSUME LoopTypeOK, Marks, NEW p \in Procs, Fetch(p)
  PROVE  LoopTypeOK' /\ Marks'
  <1>1. PICK reached \in SUBSET Instances, kept \in {{}, mem[p].skipped} :
          \E copies \in {{c \in here : c[1] \in reached /\ torrent[c].cat = CategoryOf(p)}},
             m \in {Refreshed(p, [mem[p] EXCEPT !.skipped = kept])} :
                Fetches(p, reached, copies, m)
    BY Zenon DEF Fetch, Decides, Fetches
  <1> DEFINE copies == {c \in here : c[1] \in reached /\ torrent[c].cat = CategoryOf(p)}
             m == Refreshed(p, [mem[p] EXCEPT !.skipped = kept])
             n(looked) == Cardinality(Instances \ reached) + IF looked = copies THEN 0 ELSE 1
  <1>2. Fetches(p, reached, copies, m)
    BY <1>1
  <1>3. copies \subseteq Copies
    BY DEF LoopTypeOK
  <1> HIDE DEF copies, m
  <1>4. PICK looked \in SUBSET copies :
           \E tagged \in {looked} \union {looked \union {c} : c \in copies \ looked} :
              Decides(p, m, looked, tagged, looked = copies, n(looked))
    BY <1>2, Zenon DEF Fetches
  <1>5. PICK tagged \in {looked} \union {looked \union {c} : c \in copies \ looked} :
              Decides(p, m, looked, tagged, looked = copies, n(looked))
    BY <1>4, Zenon
  <1>6. looked \subseteq Copies /\ tagged \subseteq Copies
    BY <1>3
  <1>7. n(looked) \in Nat
    <2>1. IsFiniteSet(Instances \ reached)
      BY LoopAssumption, FS_Subset
    <2>2. Cardinality(Instances \ reached) \in Nat
      BY <2>1, FS_CardinalityType
    <2> QED
      BY <2>2
  <1>8. kept \in SUBSET Hashes
    <2>1. mem[p] \in Memory
      BY DEF LoopTypeOK
    <2>2. mem[p].skipped \subseteq Hashes
      BY <2>1, MemoryFields, Zenon DEF Notes
    <2> QED
      BY <2>2
  <1>9. pc[p] = "fetch" /\ UNCHANGED <<warned, erased>>
    BY DEF Fetch
  <1> HIDE DEF n
  <1> QED
    BY <1>5, <1>6, <1>7, <1>8, <1>9, DecidesStep DEF m

-----------------------------------------------------------------------------
(* The cleanup, and what goes on around the loops. *)

\* The cleanup only adds warnings to what the Arr's loop has marked.
LEMMA CleanStep ==
  ASSUME LoopTypeOK, Marks, AllFolderCleanup
  PROVE  LoopTypeOK' /\ Marks'
  <1> DEFINE m == mem["arr"]
  <1>1. PICK swept \in {"nothing", "folders", "all"}, asked \in BOOLEAN :
           /\ Fault(IF asked THEN 0 ELSE 1)
           /\ Abandon("arr", [Swept(m, swept) EXCEPT
                                 !.bad = IF asked THEN @ \union warned ELSE @])
    BY Zenon DEF AllFolderCleanup
  <1> DEFINE w1 == [m EXCEPT !.sent = IF swept = "nothing" THEN m.sent ELSE {}]
             w  == [w1 EXCEPT !.scanned = IF swept = "all" THEN {} ELSE m.scanned]
             d  == [w EXCEPT !.bad = IF asked THEN w.bad \union warned ELSE w.bad]
             n  == IF asked THEN 0 ELSE 1
  <1>2. m \in Memory
    BY DEF LoopTypeOK, Procs
  <1>3. m.sent \subseteq Copies /\ m.scanned \subseteq Hashes /\ m.bad \subseteq Hashes
    BY <1>2, MemoryFields, Zenon DEF Buckets, Notes
  <1>4. w \in Memory
    <2>1. w1 \in Memory
      BY <1>2, <1>3, SetBucket, Zenon DEF Buckets
    <2> QED
      BY <1>3, <2>1, SetNote, Zenon DEF Notes
  <1>5. /\ w.delete = m.delete /\ w.deleteAt = m.deleteAt /\ w.remove = m.remove
        /\ w.targets = m.targets /\ w.seen = m.seen /\ w.confirmed = m.confirmed
        /\ w.bad = m.bad
    BY <1>2, Zenon DEF Memory, Buckets, Notes
  <1>6. Swept(m, swept) = w
    BY Zenon DEF Swept
  <1> HIDE DEF w
  <1>7. d \in Memory
    <2>1. (IF asked THEN w.bad \union warned ELSE w.bad) \subseteq Hashes
      BY <1>3, <1>5 DEF LoopTypeOK
    <2> QED
      BY <1>4, <2>1, SetNote, Zenon DEF Notes
  <1>8. /\ d.delete = w.delete /\ d.deleteAt = w.deleteAt /\ d.remove = w.remove
        /\ d.targets = w.targets /\ d.seen = w.seen /\ d.confirmed = w.confirmed
        /\ d.bad = IF asked THEN w.bad \union warned ELSE w.bad
    BY <1>4, Zenon DEF Memory, Buckets, Notes
  <1>9. Fault(n) /\ n \in Nat /\ Abandon("arr", d)
    BY <1>1, <1>6
  <1> HIDE DEF d, n
  <1>10. spent' \in Spent /\ spent'.crashes = spent.crashes
    BY <1>9, FaultStep DEF LoopTypeOK, Spent
  <1>11. /\ mem' = [mem EXCEPT !["arr"] = d] /\ pc' \in [Procs -> Batches]
         /\ \A q \in Procs : q # "arr" => pc'[q] = pc[q]
    BY <1>9 DEF Abandon, LoopTypeOK, Batches
  <1>12. UNCHANGED <<client, arrSide, history>> /\ pc["arr"] = "clean"
    BY DEF AllFolderCleanup
  <1>13. m.confirmed = {}
    BY <1>12 DEF Marks, Handover, Procs
  <1>14. d.bad \subseteq m.bad \union warned
    BY <1>5, <1>8
  <1>15. Marks'
    BY <1>5, <1>7, <1>8, <1>10, <1>11, <1>12, <1>13, <1>14, KeepsMarks DEF Procs
  <1>16. LoopTypeOK'
    <2>1. mem' \in [Procs -> Memory]
      BY <1>7, <1>11 DEF LoopTypeOK
    <2> QED
      BY <1>10, <1>11, <1>12, <2>1 DEF LoopTypeOK, Spent, Batches, client, arrSide, history
  <1> QED
    BY <1>15, <1>16

\* Around the loops the Arr's queue shrinks and its warnings grow.
LEMMA AroundKeeps ==
  ASSUME LoopTypeOK, Marks, Around, queue' \subseteq queue, warned \subseteq warned',
         blocked' = blocked
  PROVE  Marks' /\ spent' \in Spent
  <1>1. /\ UNCHANGED <<mem, pc, condemned, delayed, missed, erased>>
        /\ spent' = [spent EXCEPT !.changes = spent.changes + 1]
        /\ spent.changes < MaxChanges
    BY DEF Around, history
  <1>2. Mourned' = Mourned
    BY <1>1 DEF Mourned
  <1>3. /\ spent.changes \in 0 .. MaxChanges /\ spent.changes + 1 \in 0 .. MaxChanges
        /\ spent \in Spent
    BY <1>1, LoopAssumption DEF LoopTypeOK, Spent
  <1>4. spent' \in Spent /\ spent'.crashes = spent.crashes
    BY <1>1, <1>3, Zenon DEF Spent
  <1>5. Reasons' /\ Handover' /\ PendingIsMarked'
    BY <1>1, <1>2 DEF Marks, Reasons, Handover, PendingIsMarked
  <1>6. StillMarked' /\ Cached'
    BY <1>1, <1>4 DEF Marks, StillMarked, Cached
  <1>7. OnlyCondemnedBlocked' /\ ErasedWasMarked'
    BY <1>1, <1>2 DEF Marks, OnlyCondemnedBlocked, ErasedWasMarked
  <1> QED
    BY <1>4, <1>5, <1>6, <1>7 DEF Marks

\* So do the changes of the torrents, warnings and imports.
LEMMA AroundStep ==
  ASSUME LoopTypeOK, Marks, Change \/ Warn \/ Import
  PROVE  LoopTypeOK' /\ Marks'
  <1>1. Around
    BY DEF Change, Warn, Import
  <1>2. UNCHANGED <<mem, pc, condemned, delayed, missed, erased>>
    BY <1>1 DEF Around, history
  <1>3. CASE Change
    <2>1. UNCHANGED <<here, queue, warned, blocked>>
      BY <1>3 DEF Change, arrSide
    <2>2. Marks' /\ spent' \in Spent
      BY <1>1, <2>1, AroundKeeps
    <2>3. torrent' \in [Copies -> Torrent]
      <3>1. PICK c \in here, t \in Contents :
               torrent' = [torrent EXCEPT ![c] = [t EXCEPT !.tags = torrent[c].tags]]
        BY <1>3 DEF Change
      <3>2. t \in Torrent /\ torrent[c] \in Torrent
        BY LoopAssumption DEF LoopTypeOK
      <3>3. [t EXCEPT !.tags = torrent[c].tags] \in Torrent
        BY <3>2 DEF Torrent
      <3> QED
        BY <3>1, <3>3 DEF LoopTypeOK
    <2> QED
      BY <1>2, <2>1, <2>2, <2>3 DEF LoopTypeOK, Spent
  <1>4. CASE Warn
    <2>1. /\ warned \subseteq warned' /\ warned' \subseteq Hashes
          /\ UNCHANGED <<here, torrent, queue, blocked>>
      BY <1>4 DEF Warn, client, LoopTypeOK
    <2>2. Marks' /\ spent' \in Spent
      BY <1>1, <2>1, AroundKeeps
    <2> QED
      BY <1>2, <2>1, <2>2 DEF LoopTypeOK, Spent
  <1>5. CASE Import
    <2>1. queue' \subseteq queue /\ UNCHANGED <<here, torrent, warned, blocked>>
      BY <1>5 DEF Import, client
    <2>2. Marks' /\ spent' \in Spent
      BY <1>1, <2>1, AroundKeeps
    <2> QED
      BY <1>2, <2>1, <2>2 DEF LoopTypeOK, Spent
  <1> QED
    BY <1>3, <1>4, <1>5

\* A process that dies forgets what it has marked.
LEMMA CrashStep ==
  ASSUME LoopTypeOK, Marks, NEW p \in Procs, Crash(p)
  PROVE  LoopTypeOK' /\ Marks'
  <1>1. /\ UNCHANGED <<here, torrent, queue, warned, blocked, condemned, delayed, missed, erased>>
        /\ spent' = [spent EXCEPT !.crashes = spent.crashes + 1]
        /\ spent.crashes < MaxCrashes
        /\ mem' = [mem EXCEPT ![p] = Blank]
        /\ pc' = [pc EXCEPT ![p] = "fetch"]
    BY DEF Crash, Abandon, client, arrSide, history
  <1>2. /\ spent.crashes \in 0 .. MaxCrashes /\ spent.crashes + 1 \in 0 .. MaxCrashes
        /\ spent \in Spent
    BY <1>1, LoopAssumption DEF LoopTypeOK, Spent
  <1>3. spent' \in Spent /\ spent'.crashes = spent.crashes + 1
    BY <1>1, <1>2, Zenon DEF Spent
  <1>4. mem'[p] = Blank /\ \A q \in Procs : q # p => mem'[q] = mem[q]
    BY <1>1 DEF LoopTypeOK
  <1>5. /\ Blank.delete = {} /\ Blank.bad = {} /\ Blank.targets = {} /\ Blank.remove = {}
        /\ Blank.deleteAt = {} /\ Blank.confirmed = {}
    BY DEF Blank, Buckets, Notes
  <1>6. \A q \in Procs : q # p => pc'[q] = pc[q]
    BY <1>1 DEF LoopTypeOK
  <1>7. Mourned' = Mourned
    BY <1>1 DEF Mourned
  <1>8. LoopTypeOK'
    <2>1. mem' \in [Procs -> Memory]
      BY <1>1, BlankMemory DEF LoopTypeOK
    <2>2. pc' \in [Procs -> Batches]
      BY <1>1 DEF LoopTypeOK, Batches
    <2> QED
      BY <1>1, <1>3, <2>1, <2>2 DEF LoopTypeOK, Spent, Batches
  <1> HIDE DEF Blank
  <1>9. Reasons'
    BY <1>1, <1>4, <1>5, <1>7 DEF Marks, Reasons
  <1>10. Handover'
    BY <1>4, <1>5, <1>6 DEF Marks, Handover
  <1>11. PendingIsMarked'
    BY <1>4, <1>5 DEF Marks, PendingIsMarked, Held
  <1>12. StillMarked' /\ Cached'
    <2>1. spent'.crashes # 0
      BY <1>2, <1>3
    <2> QED
      BY <2>1 DEF StillMarked, Cached
  <1>13. OnlyCondemnedBlocked' /\ ErasedWasMarked'
    BY <1>1, <1>7 DEF Marks, OnlyCondemnedBlocked, ErasedWasMarked
  <1> QED
    BY <1>8, <1>9, <1>10, <1>11, <1>12, <1>13 DEF Marks

-----------------------------------------------------------------------------
(* The invariant. *)

\* The invariant holds at first, and every step keeps it.
LEMMA LoopInvInit == LoopInit => LoopInv
  <1> SUFFICES ASSUME LoopInit PROVE LoopInv
    OBVIOUS
  <1>1. /\ queue = Hashes /\ warned = {} /\ blocked = {}
        /\ mem = [p \in Procs |-> Blank] /\ pc = [p \in Procs |-> "fetch"]
        /\ spent = [changes |-> 0, faults |-> 0, crashes |-> 0]
        /\ condemned = {} /\ delayed = {} /\ missed = {} /\ erased = {}
    BY DEF LoopInit
  <1>2. here \subseteq Copies /\ torrent \in [Copies -> Torrent]
    BY LoopAssumption DEF LoopInit
  <1>3. LoopTypeOK
    BY <1>1, <1>2, BlankMemory, LoopAssumption DEF LoopTypeOK
  <1>4. /\ Blank.delete = {} /\ Blank.bad = {} /\ Blank.targets = {} /\ Blank.remove = {}
        /\ Blank.deleteAt = {} /\ Blank.confirmed = {}
    BY DEF Blank, Buckets, Notes
  <1> HIDE DEF Blank
  <1>5. Reasons /\ Handover /\ PendingIsMarked
    BY <1>1, <1>4 DEF Reasons, Handover, PendingIsMarked, Held
  <1>6. StillMarked /\ Cached /\ OnlyCondemnedBlocked /\ ErasedWasMarked
    BY <1>1 DEF StillMarked, Cached, OnlyCondemnedBlocked, ErasedWasMarked
  <1> QED
    BY <1>3, <1>5, <1>6 DEF LoopInv

LEMMA LoopInvStep == LoopInv /\ [LoopNext]_loop => LoopInv'
  <1> SUFFICES ASSUME LoopInv, [LoopNext]_loop PROVE LoopInv'
    OBVIOUS
  <1>1. LoopTypeOK /\ Marks
    BY DEF LoopInv, Marks
  <1>2. LoopTypeOK' /\ Marks'
    <2>1. ASSUME NEW p \in Procs, Iterate(p)
          PROVE  LoopTypeOK' /\ Marks'
      <3>1. CASE Fetch(p)
        BY <1>1, <3>1, FetchStep
      <3>2. CASE ProcessResume(p)
        BY <1>1, <3>2, ResumeStep
      <3>3. CASE ProcessPaused(p)
        BY <1>1, <3>3, PausedStep
      <3>4. CASE ProcessErrored(p)
        BY <1>1, <3>4, ErroredStep
      <3>5. CASE ProcessFilePriority(p)
        BY <1>1, <3>5, FilesStep
      <3>6. CASE ProcessImports(p)
        BY <1>1, <3>6, ImportsStep
      <3>7. CASE ProcessFailed(p)
        BY <1>1, <3>7, FailedStep
      <3>8. CASE ProcessQueue(p)
        BY <1>1, <3>8, QueueStep
      <3>9. CASE AllFolderCleanup
        BY <1>1, <3>9, CleanStep
      <3> QED
        BY <2>1, <3>1, <3>2, <3>3, <3>4, <3>5, <3>6, <3>7, <3>8, <3>9 DEF Iterate, Batch
    <2>2. CASE \E p \in Procs : Crash(p)
      BY <1>1, <2>2, CrashStep
    <2>3. CASE Change \/ Warn \/ Import
      BY <1>1, <2>3, AroundStep
    <2>4. CASE UNCHANGED loop
      <3>1. Mourned' = Mourned
        BY <2>4 DEF loop, Mourned
      <3>2. LoopTypeOK'
        BY <1>1, <2>4 DEF loop, LoopTypeOK
      <3>3. Marks'
        BY <1>1, <2>4, <3>1 DEF loop, Marks, Reasons, Handover, PendingIsMarked, StillMarked,
             Cached, OnlyCondemnedBlocked, ErasedWasMarked
      <3> QED
        BY <3>2, <3>3
    <2> QED
      BY <2>1, <2>2, <2>3, <2>4 DEF LoopNext
  <1> QED
    BY <1>2 DEF LoopInv, Marks

\* The types are kept, the marks of each process have their reasons, and what was condemned
\* is marked until the Arr was told.
THEOREM LoopInvariant == LoopSpec => []LoopInv
  BY LoopInvInit, LoopInvStep, PTL DEF LoopSpec

\* Only what a loop condemned or put on the stalled delay, or what the Arr warned of, is ever
\* blocklisted: not a torrent removed for its missing files (torrent_batch.py).
THEOREM OnlyCondemnedBlockedHolds == LoopSpec => []OnlyCondemnedBlocked
  <1>1. LoopInv => OnlyCondemnedBlocked
    BY DEF LoopInv
  <1> QED
    BY <1>1, LoopInvariant, PTL

\* A copy outside the primary instance is deleted only when that very copy was marked,
\* although a deletion unmarks its hash on all instances.
THEOREM ErasedWasMarkedHolds == LoopSpec => []ErasedWasMarked
  <1>1. LoopInv => ErasedWasMarked
    BY DEF LoopInv
  <1> QED
    BY <1>1, LoopInvariant, PTL

\* As long as no process died, what the Arr's loop condemned and the Arr still queues is
\* marked: whatever calls fail, the Arr can still be told of it.
THEOREM StillMarkedHolds == LoopSpec => []StillMarked
  <1>1. LoopInv => StillMarked
    BY DEF LoopInv
  <1> QED
    BY <1>1, LoopInvariant, PTL

\* A deletion pending on an instance is marked for the Arr too, after each failure.
THEOREM PendingIsMarkedHolds == LoopSpec => []PendingIsMarked
  <1>1. LoopInv => PendingIsMarked
    BY DEF LoopInv
  <1> QED
    BY <1>1, LoopInvariant, PTL
=============================================================================
