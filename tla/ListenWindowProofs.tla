------------------------- MODULE ListenWindowProofs -------------------------
(***************************************************************************)
(* The lookback window is wide enough, for every margin, every clock skew  *)
(* within Slack and every back-dating within Backdate.                     *)
(***************************************************************************)
EXTENDS ListenWindow, TLAPS

\* A wrap published by a clock that reads t passes the filter of an anchor that
\* is at most Slack ahead of t, however far it is back-dated.
LEMMA StampInWindow ==
    ASSUME NEW t \in Nat, NEW a \in Nat, a <= t + Slack, NEW s \in Stamps(t)
    PROVE  s \in Nat /\ s >= backlog_since(a)
  <1>1. PICK d \in 0..Backdate : s = Minus(t, d)
    BY DEF Stamps
  <1> QED
    BY <1>1, WindowAssumption DEF Minus, backlog_since, GIFT_WRAP_BACKDATE

LEMMA InitIInv == Init => IInv
  BY WindowAssumption DEF Init, IInv, TypeOK, ClocksAhead, RequestsAfterSession,
     RequestInWindow, RepliesAfterAnchor, SenderClock

\* The sender's clock is a time stamp like any other.
LEMMA SenderClockNat ==
    ASSUME IInv
    PROVE  /\ SenderClock \in Nat
           /\ created <= SenderClock + Slack
           /\ now <= SenderClock + Slack
           /\ SenderClock <= now + Slack
  BY WindowAssumption DEF IInv, TypeOK, ClocksAhead, SenderClock

LEMMA NextIInv == IInv /\ [Next]_vars => IInv'
<1> SUFFICES ASSUME IInv, [Next]_vars PROVE IInv'
  OBVIOUS
<1> USE WindowAssumption DEF IInv, TypeOK
<1>1. CASE Tick
  BY <1>1 DEF Tick, ClocksAhead, RequestsAfterSession, RequestInWindow,
     RepliesAfterAnchor, SenderClock
<1>2. CASE CreateSession
  BY <1>2 DEF CreateSession, ClocksAhead, RequestsAfterSession, RequestInWindow,
     RepliesAfterAnchor, SenderClock
<1>3. CASE TakeTime
  <2>1. SenderClock \in Nat /\ SenderClock # 0
    BY DEF ClocksAhead, SenderClock
  <2> QED
    BY <1>3, <2>1 DEF TakeTime, ClocksAhead, RequestsAfterSession,
       RequestInWindow, RepliesAfterAnchor, SenderClock
<1>4. CASE Reopen
  BY <1>4 DEF Reopen, ClocksAhead, RequestsAfterSession, RequestInWindow,
     RepliesAfterAnchor, SenderClock
<1>5. CASE SendRequest
  <2>1. PICK s \in Stamps(SenderClock) : requests' = requests \cup {s}
    BY <1>5 DEF SendRequest
  <2>2. s \in Nat /\ s >= backlog_since(created)
    BY <2>1, SenderClockNat, StampInWindow
  <2>3. /\ UNCHANGED <<now, ahead, created, saved, anchor, replies>>
        /\ at = "ready" /\ at' = "sent"
    BY <1>5 DEF SendRequest
  <2>4. TypeOK' /\ ClocksAhead'
    BY <2>1, <2>2, <2>3 DEF ClocksAhead, SenderClock
  <2>5. RequestsAfterSession'
    BY <2>1, <2>2, <2>3 DEF RequestsAfterSession, RequestInWindow, backlog_since, Minus
  <2>6. RepliesAfterAnchor'
    <3>1. ~MayDieUnrecorded => replies = {}
      BY <2>3 DEF RepliesAfterAnchor
    <3> QED
      BY <2>1, <2>3, <3>1 DEF RepliesAfterAnchor, SenderClock
  <2> QED
    BY <2>4, <2>5, <2>6
<1>6. CASE Record
  BY <1>6 DEF Record, ClocksAhead, RequestsAfterSession, RequestInWindow,
     RepliesAfterAnchor, SenderClock
<1>7. CASE SendReply
  <2>1. PICK s \in Stamps(now) : replies' = replies \cup {s}
    BY <1>7 DEF SendReply
  <2>2. s \in Nat
    BY <2>1, StampInWindow
  <2>3. anchor <= now + Slack /\ saved <= now + Slack
    BY SenderClockNat DEF ClocksAhead, RepliesAfterAnchor, SenderClock
  <2>4. s >= backlog_since(anchor) /\ s >= backlog_since(saved)
    BY <2>1, <2>3, StampInWindow
  <2>5. /\ UNCHANGED <<now, ahead, created, saved, at, anchor, requests>>
        /\ requests # {}
    BY <1>7 DEF SendReply
  <2>6. TypeOK' /\ ClocksAhead' /\ RequestsAfterSession'
    BY <2>1, <2>2, <2>5 DEF ClocksAhead, SenderClock, RequestsAfterSession,
       RequestInWindow
  <2>7. RepliesAfterAnchor'
    BY <2>1, <2>4, <2>5 DEF RepliesAfterAnchor, SenderClock
  <2> QED
    BY <2>6, <2>7
<1>8. CASE Stop
  BY <1>8 DEF Stop, ClocksAhead, RequestsAfterSession, RequestInWindow,
     RepliesAfterAnchor, SenderClock
<1>9. CASE UNCHANGED vars
  BY <1>9 DEF vars, ClocksAhead, RequestsAfterSession, RequestInWindow,
     RepliesAfterAnchor, SenderClock
<1> QED
  BY <1>1, <1>2, <1>3, <1>4, <1>5, <1>6, <1>7, <1>8, <1>9 DEF Next

\* However clocks are set: no saved time is ahead of the clock it was taken from, every
\* request was stamped within the window of its session and, unless senders die
\* unrecorded, every reply within that of the anchor in memory and of the one on disk.
THEOREM WindowInvariant == Spec => []IInv
  BY InitIInv, NextIInv, PTL DEF Spec

\* recv with the receiver's saved created_at never slides past a request.
THEOREM RequestsAreFound == Spec => []RequestInWindow
<1>1. IInv => RequestInWindow
  BY DEF IInv, RequestsAfterSession
<1> QED
  BY <1>1, WindowInvariant, PTL

\* recv with the sender's published_at never slides past a reply, as long as no
\* sender is killed between publishing its request and recording that it did.
THEOREM RepliesAreFound == ~MayDieUnrecorded => (Spec => []ReplyInWindow)
<1>1. ~MayDieUnrecorded /\ IInv => ReplyInWindow
  BY DEF IInv, RepliesAfterAnchor, ReplyInWindow
<1> SUFFICES ASSUME ~MayDieUnrecorded PROVE Spec => []ReplyInWindow
  OBVIOUS
<1>2. IInv => ReplyInWindow
  BY <1>1
<1> QED
  BY <1>2, WindowInvariant, PTL
=============================================================================
