------------------------------- MODULE Replay -------------------------------
(***************************************************************************)
(* The replay of a recorded payment: how pjn-replay cuts a recording, and  *)
(* how the page plays it.  The browser calls frame once for every callback *)
(* that was scheduled, all those of one drawing with the same time stamp;  *)
(* the viewer acts between two drawings, and several callbacks may be      *)
(* scheduled when he does.  Times are in units of 1 / FrameCap of the most *)
(* that one frame advances.                                                *)
(***************************************************************************)
EXTENDS Integers, Sequences, SequencesExt, FiniteSetsExt

CONSTANTS
    Recordings,  \* what was recorded: sequences of lines
    MaxGap,      \* MAX_GAP_MS
    FrameCap,    \* the 250 ms of frame
    Speeds,
    MaxLoops,    \* bound on the callbacks that are scheduled at one time
    MaxHidden    \* bound on the time between two frames

\* A line has the time at which it was recorded, and is an event of some kind or a header.
Line == [t : Nat, is : STRING]

ASSUME ReplayAssumption ==
    /\ Recordings \subseteq Seq(Line)
    /\ {MaxGap, FrameCap, MaxLoops, MaxHidden} \subseteq Nat \ {0}
    /\ Speeds \subseteq Nat \ {0} /\ 1 \in Speeds
    /\ \E fastest \in Speeds : \A s \in Speeds : s <= fastest

VARIABLES
    story,     \* the timeline: the events that are left and the time each is shown at
    applied,   \* how many of them were handled
    position,
    playing,
    speed,
    since,     \* the time of the page, that of the next drawing, less lastFrame
    loops,     \* the callbacks that are scheduled
    due,       \* those of the drawing that takes place
    stage,     \* the events on stage
    shown,     \* the last state that was handled, or "none"
    marked,    \* whether the recorded note itself says that it was collected
    caption,
    limit      \* history: how far the story can have got since the last seek

player == <<speed, since, loops, due>>
screen == <<stage, shown, marked, caption>>
vars == <<story, applied, position, playing, player, screen, limit>>

-----------------------------------------------------------------------------
(* pjn-replay                                                              *)

\* What main pushes of the lines.
Events(lines) ==
    LET events[i \in 0 .. Len(lines)] ==
            IF i = 0 THEN <<>>
            ELSE IF lines[i].is = "header" THEN events[i - 1]
            ELSE Append(events[i - 1], lines[i])
    IN  events[Len(lines)]

IsState(e) == e.is \in {"state", "balances"}

\* Mutant of TrimToStoryEnd: the story ends where the confirmation is announced.
TrimAtConfirmed(events) ==
    LET confirmed == {i \in DOMAIN events : events[i].is = "confirmed"}
    IN  IF confirmed = {} THEN events ELSE SubSeq(events, 1, Min(confirmed))

\* The story ends with the first state after the confirm step is done.
TrimToStoryEnd(events) ==
    LET done == {i \in DOMAIN events : events[i].is = "done"}
        after == {i \in DOMAIN events : IsState(events[i]) /\ i > Min(done)}
    IN  CASE done = {} -> events
          [] done # {} /\ after = {} -> SubSeq(events, 1, Min(done))
          [] OTHER -> SubSeq(events, 1, Min(after))

\* The events that main puts into a page made of the lines, or none if it refuses: it
\* wants a header and an event, and no key material in what it publishes.
Bundle(lines) ==
    LET events == Events(lines)
        kept == TrimToStoryEnd(events)
        kinds(s) == {s[i].is : i \in DOMAIN s}
    IN  IF events = lines \/ events = <<>> \/ "secret" \in kinds(kept) THEN {} ELSE {kept}

Pages == UNION {Bundle(lines) : lines \in Recordings}

\* The timeline: long waits are shortened, and the caption says so.
Timeline(events) ==
    LET gap(i) == IF i = 1 THEN 0 ELSE events[i].t - events[i - 1].t
        shownSoFar[i \in 0 .. Len(events)] ==
            IF i = 0 THEN 0 ELSE shownSoFar[i - 1] + Min({gap(i), MaxGap})
    IN  [i \in DOMAIN events |->
           [at |-> shownSoFar[i], is |-> events[i].is,
            told |-> gap(i) > MaxGap \/ IsState(events[i])]]

total == Last(story).at

-----------------------------------------------------------------------------
(* The page                                                                *)

\* What handle makes of one event.
Handled(s, e) ==
    CASE e.is = "reset" -> <<>>
      [] IsState(e) -> s
      [] OTHER -> Append(s, e.is)

\* The events of a stage s after some more were handled, one after the other.
After(s, events) ==
    LET handled[i \in 0 .. Len(events)] ==
            IF i = 0 THEN s ELSE Handled(handled[i - 1], events[i])
    IN  handled[Len(events)]

OnStage(events) == After(<<>>, events)

LastState(none, events) ==
    LET states == {i \in DOMAIN events : IsState(events[i])}
    IN  IF states = {} THEN none ELSE events[Max(states)].is

\* handle writes the collection into the note, and the note belongs to the timeline.
Marks(s, events) ==
    \E i \in DOMAIN events :
        LET before == After(s, SubSeq(events, 1, i))
        IN  events[i].is \in {"note", "collected"} /\ {"note", "collected"} \subseteq Range(before)

\* Mutant of Reach: an event is handled after its time only.
ReachLate(from, at) ==
    Max({n \in from .. Len(story) : \A i \in from + 1 .. n : story[i].at < at})

\* How far applyUpTo gets.
Reach(from, at) ==
    Max({n \in from .. Len(story) : \A i \in from + 1 .. n : story[i].at <= at})

\* applyUpTo, when the page shows stage s, state none and caption said, and the note
\* is marked if m.
applyUpTo(from, at, s, none, said, m) ==
    LET new == SubSeq(story, from + 1, Reach(from, at))
    IN  /\ applied' = Reach(from, at)
        /\ stage' = After(s, new)
        /\ shown' = LastState(none, new)
        /\ marked' = (m \/ Marks(s, new))
        /\ caption' = IF position' >= total THEN "end"
                      ELSE IF \E e \in Range(new) : e.told THEN "told" ELSE said

\* Mutant of seek: what is on stage stays.
seekKeeps(at, said, m) ==
    /\ position' = Max({0, Min({total, at})})
    /\ applyUpTo(0, position', stage, "none", said, m)
    /\ limit' = position'

seek(at, said, m) ==
    /\ position' = Max({0, Min({total, at})})
    /\ applyUpTo(0, position', <<>>, "none", said, m)
    /\ limit' = position'

\* The last line of the script: seek(0), with the caption that it wrote before.
Init ==
    \E page \in Pages :
        /\ story = Timeline(page)
        /\ applied = Reach(0, 0) /\ position = 0 /\ playing = FALSE
        /\ speed = 1 /\ since = 0 /\ loops = 0 /\ due = 0
        /\ LET new == SubSeq(story, 1, applied)
           IN  /\ stage = OnStage(new)
               /\ shown = LastState("none", new)
               /\ marked = Marks(<<>>, new)
               /\ caption = IF 0 >= total THEN "end"
                            ELSE IF \E e \in Range(new) : e.told THEN "told" ELSE "start"
        /\ limit = 0

\* Time passes.  While the tab is hidden nothing is drawn.
Tick ==
    /\ due = 0 /\ playing
    /\ since < MaxHidden
    /\ since' = since + 1
    /\ limit' = Max({limit, Min({total, limit + Max(Speeds)})})
    /\ UNCHANGED <<story, applied, position, playing, speed, loops, due, screen>>

\* The browser begins to draw.  No two drawings bear the same time.
BeginFrame ==
    /\ due = 0 /\ loops > 0
    /\ playing => since # 0
    /\ due' = loops
    /\ loops' = 0
    /\ UNCHANGED <<story, applied, position, playing, speed, since, screen, limit>>

\* Mutants of Advance: a step is not capped; the last frame is not remembered.
AdvanceUncapped ==
    /\ position' = Min({total, position + since * speed})
    /\ since' = 0
AdvanceForgets ==
    /\ position' = Min({total, position + Min({since, FrameCap}) * speed})
    /\ since' = IF position' < total THEN since ELSE 0

\* Each step is capped, for a tab that comes back.
Advance ==
    /\ position' = Min({total, position + Min({since, FrameCap}) * speed})
    /\ since' = 0

\* frame, at its end or in a player that was paused
FrameStops ==
    /\ due > 0 /\ ~playing
    /\ due' = due - 1
    /\ UNCHANGED <<story, applied, position, playing, speed, since, loops, screen, limit>>

\* Mutant of Scheduled: a frame that shows nothing new is the last.
ScheduledIfNew == loops + (IF playing' /\ applied' # applied THEN 1 ELSE 0)

Scheduled == loops + (IF playing' THEN 1 ELSE 0)

frame ==
    /\ due > 0 /\ playing
    /\ Advance
    /\ applyUpTo(applied, position', stage, shown, caption, marked)
    /\ playing' = (position' < total)
    /\ loops' = Scheduled
    /\ due' = due - 1
    /\ UNCHANGED <<story, speed, limit>>

\* The viewer acts between two drawings.
Viewer == due = 0 /\ loops < MaxLoops

\* The rest of play: one more callback is scheduled.  The next drawing may bear a time
\* before the click (bound: not while the position is below 0 for that reason).
Plays ==
    /\ playing' = TRUE
    /\ since' \in IF position < 0 THEN {0} ELSE {0, -1}
    /\ loops' = loops + 1

play ==
    /\ Viewer /\ ~playing
    /\ Plays
    /\ IF position >= total THEN seek(0, "blank", marked)
                            ELSE UNCHANGED <<position, applied, screen, limit>>
    /\ UNCHANGED <<story, speed, due>>

pause ==
    /\ Viewer /\ playing
    /\ playing' = FALSE
    /\ since' = 0
    /\ UNCHANGED <<story, applied, position, speed, loops, due, screen, limit>>

\* Who is dragged to the end while the story plays watches it again.
jump(at, said) ==
    /\ Viewer
    /\ IF playing THEN /\ Plays
                       /\ IF at >= total THEN seek(0, "blank", marked \/ Marks(<<>>, story))
                                         ELSE seek(at, said, marked)
                  ELSE seek(at, said, marked) /\ UNCHANGED <<playing, since, loops>>
    /\ UNCHANGED <<story, speed, due>>

Restart == jump(0, "blank")

SetSpeed(s) ==
    /\ Viewer
    /\ s # speed
    /\ speed' = s
    /\ UNCHANGED <<story, applied, position, playing, since, loops, due, screen, limit>>

Browser == Tick \/ BeginFrame \/ frame \/ FrameStops

Next ==
    \/ Browser
    \/ play \/ pause \/ Restart
    \/ \E at \in 0 .. total : jump(at, caption)
    \/ \E s \in Speeds : SetSpeed(s)

Spec == Init /\ [][Next]_vars

-----------------------------------------------------------------------------
(* Properties                                                              *)

\* However the viewer jumps, pauses and changes the speed, and however many callbacks
\* run at one time, the story is never further than top speed would have brought it.
NotTooFast == position <= limit

\* One drawing, with all its callbacks, never advances the story by more than the cap:
\* who comes back to the tab goes on where he left.
NoLeap ==
    [][due' < due => position' - position <= (IF loops = 0 THEN FrameCap * speed ELSE 0)]_vars

\* After any jumps back and forth, the events on stage and the last state are those of
\* the recording up to the story's position, and a note that was picked up by then is
\* shown picked up.  A note picked up later may be, too: see PickedUpThatMoment.
ShowsThatMoment ==
    /\ stage = OnStage(SubSeq(story, 1, applied))
    /\ shown = LastState("none", SubSeq(story, 1, applied))
    /\ Marks(<<>>, SubSeq(story, 1, applied)) => marked
    /\ applied >= Reach(0, position)

\* The note on stage is called picked up only when it was picked up.
PickedUpThatMoment ==
    marked /\ "note" \in Range(stage) => "collected" \in Range(stage)

\* The end of the story is the end of the recording, and the player rests there.
EndIsTheEnd ==
    position >= total => applied = Len(story) /\ ~playing /\ caption = "end"

\* The end of the recording is said at its end.
CaptionFits == caption = "end" => position >= total

\* A payment that was confirmed ends with its confirmation and its balances, and with
\* nothing that someone clicked afterwards.
EndsWithBalances ==
    position >= total /\ (\E i \in DOMAIN story : story[i].is = "confirmed") =>
        shown = "balances" /\ stage # <<>> /\ Last(stage) = "done"

\* A viewer who watches sees the end.
Watched == WF_vars(Tick) /\ WF_vars(BeginFrame) /\ WF_vars(frame)
             /\ WF_vars(FrameStops)

WatchedSpec == Spec /\ Watched

PlayEnds == <>[][Browser]_vars => []<>~playing
=============================================================================
