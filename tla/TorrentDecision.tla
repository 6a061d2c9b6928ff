-------------------------- MODULE TorrentDecision --------------------------
(***************************************************************************)
(* One call of _process_single_torrent, for the torrents and settings of   *)
(* the constants: the verdict of TorrentRules and what must be true of it. *)
(***************************************************************************)
EXTENDS TorrentRules

CONSTANTS Settings,  \* of the Arr: [mode, ratio, time, anyHnr, allowStalled, keepSlow]
          Trackers,  \* of the most important tracker
          Figures,   \* for each tracker, progress, ratio and seeding time of the torrents,
          Looks,     \* and the sets of flags that may be raised together
          FileLists  \* the files a torrent may have

ASSUME DecisionAssumption ==
    /\ Figures \in [Trackers -> SUBSET [progress: 0 .. 100, ratio: Nat, seeded: Nat]]
    /\ Looks \in [Trackers -> SUBSET SUBSET Flags]
    /\ FileLists \subseteq Seq(FileKinds)
    /\ Settings \subseteq [mode: {-1, 1, 2, 3, 4}, ratio: Int, time: Int, anyHnr: BOOLEAN,
                           allowStalled: BOOLEAN, keepSlow: BOOLEAN]
    /\ Trackers \subseteq [ratio: Int, time: Int, super: BOOLEAN,
                           hnr: {"disabled", "and", "or"}, minRatio: Nat, minTime: Nat,
                           minPart: Nat, partialRatio: Nat, buffer: Nat]

VARIABLES set,      \* the settings,
          tracker,  \* the tracker
          judged,   \* and the torrent of the call
          verdict   \* "" before the call

decision == <<set, tracker, judged, verdict>>

\* A tracker with obligations is one of the configured trackers.
DecisionInit ==
    /\ set \in Settings /\ tracker \in Trackers
    /\ tracker.hnr # "disabled" => set.anyHnr
    /\ \E st \in States, c \in {"own", "failed"}, f \in Figures[tracker],
          g \in SUBSET {"ignored", "paused", "imported"} :
          judged = [state |-> st, cat |-> c, tags |-> g, progress |-> f.progress,
                     ratio |-> f.ratio, seeded |-> f.seeded, ratioLimit |-> -2,
                     timeLimit |-> -2, is |-> {}]
    /\ verdict = ""

Decide ==
    /\ verdict = ""
    /\ \E raised \in Looks[tracker] : judged' = [judged EXCEPT !.is = raised]
    /\ \E files \in FileLists : verdict' = Judgement(set, tracker, judged', files)
    /\ UNCHANGED <<set, tracker>>

DecisionSpec == DecisionInit /\ [][Decide]_decision

-----------------------------------------------------------------------------
(* Properties. *)

Answered == verdict # ""

\* What is owed to a tracker, as docs/configuration/seeding.md:681-754 tell it: nothing
\* below the least download; the ratio for a part; for the whole, both minima or one of
\* them, those that are set, the time with the tracker's delay on top.
Owes(k, t) ==
    LET lacksRatio == k.minRatio > 0 /\ t.ratio < k.minRatio
        lacksTime  == k.minTime > 0 /\ t.seeded < k.minTime + k.buffer
    IN  /\ k.hnr # "disabled" /\ t.progress >= k.minPart
        /\ t.progress < 100 => t.ratio < k.partialRatio
        /\ t.progress = 100 /\ k.hnr = "and" => lacksRatio \/ lacksTime
        /\ t.progress = 100 /\ k.hnr = "or" =>
              /\ lacksRatio \/ lacksTime
              /\ lacksRatio \/ k.minRatio = 0
              /\ lacksTime \/ k.minTime = 0

\* While something is owed to its tracker, or the trackers cannot be read, a torrent does
\* not leave the client, by no rule and not for its files, unless the tracker does not know
\* it any more ("torrents with this tracker will not be removed until HnR obligations are
\* met").  But it does from the category "failed", and when its files are missing.
OwedKept ==
    /\ verdict \in {"delete", "empty", "remove"} /\ "dead" \notin judged.is
    /\ Owes(tracker, judged) \/ (set.anyHnr /\ "known" \notin judged.is)
    => \/ judged.cat = "failed"
       \/ verdict = "remove" /\ judged.state \in {"missingFiles", "error"}

\* A download stopped for want of space is neither resumed nor deleted by the Arr
\* loop, whatever else is true of it (the tags every rule in between asks for), except by
\* the look at its files: it asks for no tag, and deletes a download without a file to keep
\* the first time they are looked at.
SpaceHeld ==
    /\ Answered /\ judged.cat = "own" /\ "paused" \in judged.tags
    /\ judged.state \in {"pausedDL", "stoppedDL"}
    => verdict \notin {"resume", "delete"} /\ (verdict = "empty" => "cleaned" \notin judged.is)

\* A completed torrent reaches the import only with the tag qBitrr-ignored, or when
\* its idle time runs out between two looks at it: whoever may not seed on has met
\* its limits, and the rule that deletes for the limits comes first.
ImportOnlyIgnored ==
    verdict = "import" =>
        "ignored" \in judged.tags \/ ("idleSoon" \in judged.is /\ "idle" \notin judged.is)

\* A torrent whose files are missing is not put where it would be blocklisted, unless
\* its custom format is unmet ("We do not want to blacklist these!!").
MissingNotBlocklisted ==
    /\ Answered /\ judged.cat = "own" /\ "cfUnmet" \notin judged.is
    /\ judged.state = "missingFiles" \/ (judged.state = "error" /\ "missing" \in judged.is)
    => verdict = "remove"

\* An upload that was paused for its limits is not resumed by the next iteration,
\* in either of the states qBittorrent then shows (an idle one may be: its clock stops).
NoPingPong ==
    verdict = "pause" /\ judged.progress = 100 /\ "idleSoon" \notin judged.is =>
        \A st \in {"pausedUP", "stoppedUP"} :
            Verdict(set, tracker, [judged EXCEPT !.state = st]) # "resume"
=============================================================================
