----------------------------- MODULE LossyStream -----------------------------
(***************************************************************************)
(* What a live session promises each receiver of its stream, whatever      *)
(* channels it uses: the receiver is given the published events in order;  *)
(* an event may be lost to it, and then the next thing it is given is one  *)
(* gap whose number is that of the first lost event and whose span is      *)
(* exactly that of the lost ones.  Controls without a span are not owed.   *)
(* (README.md: "Loss is never silent"; client.rs, FanOut.)                 *)
(***************************************************************************)
EXTENDS Integers, Sequences

CONSTANTS Receivers, Lossless  \* event kinds whose loss is never reported

VARIABLES log,   \* everything published; an event's seq is its position from 0
          out,   \* receiver -> what it was given
          lost,  \* receiver -> seqs lost to it and not yet reported
          rx     \* receiver -> "new", "open" or "closed"

vars == <<log, out, lost, rx>>

Least(S)    == CHOOSE x \in S : \A y \in S : x <= y
Greatest(S) == CHOOSE x \in S : \A y \in S : y <= x

(* The one gap that reports the loss of L. *)
GapFor(L) == [kind |-> "gap", seq |-> Least(L),
              from |-> Least({log[s + 1].from : s \in L}),
              to   |-> Greatest({log[s + 1].to : s \in L})]

Owed(ev) == IF ev.kind \in Lossless THEN {} ELSE {ev.seq}

(* What publishing ev may do to the receiver r. *)
Offer(r, ev) ==
  \/ out'[r] = out[r] /\ lost'[r] = lost[r] \cup Owed(ev)
  \/ /\ lost[r] = {} /\ lost'[r] = {}
     /\ out'[r] = Append(out[r], ev)
  \/ /\ lost[r] # {}
     /\ \/ out'[r] = Append(out[r], GapFor(lost[r])) /\ lost'[r] = Owed(ev)
        \/ out'[r] = out[r] \o <<GapFor(lost[r]), ev>> /\ lost'[r] = {}

Publish ==
  LET ev == log'[Len(log) + 1] IN
  /\ Len(log') = Len(log) + 1 /\ log' = Append(log, ev) /\ ev.seq = Len(log)
  /\ DOMAIN out' = Receivers /\ DOMAIN lost' = Receivers
  /\ \A r \in Receivers : IF rx[r] = "open" THEN Offer(r, ev)
                          ELSE out'[r] = out[r] /\ lost'[r] = lost[r]
  /\ UNCHANGED rx

(* A receiver joins, and may first be given one published event that is    *)
(* never reported lost (the cached subscription state).                    *)
Join(r) ==
  /\ rx[r] = "new"
  /\ \E state \in {"open", "closed"} : rx' = [rx EXCEPT ![r] = state]
  /\ \/ UNCHANGED out
     \/ \E i \in DOMAIN log :
          log[i].kind \in Lossless /\ out' = [out EXCEPT ![r] = <<log[i]>>]
  /\ UNCHANGED <<log, lost>>

Leave(r) ==
  /\ rx[r] = "open" /\ rx' = [rx EXCEPT ![r] = "closed"]
  /\ lost' = [lost EXCEPT ![r] = {}]
  /\ UNCHANGED <<log, out>>

Init ==
  /\ log = <<>>
  /\ out = [r \in Receivers |-> <<>>] /\ lost = [r \in Receivers |-> {}]
  /\ rx \in [Receivers -> {"new", "open"}]

Next == Publish \/ \E r \in Receivers : Join(r) \/ Leave(r)

Spec == Init /\ [][Next]_vars
=============================================================================
