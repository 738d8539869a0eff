--------------------------- MODULE MCModulesProofs ---------------------------
(***************************************************************************)
(* Proofs about DummyEvSlac, SimpleSwitch3ph1phAPI and EVDevInput, for     *)
(* every set of limits and keys and every length of the queue of the       *)
(* kernel.                                                                 *)
(***************************************************************************)
EXTENDS MCModules, Sequences, TLAPS, SequenceTheorems, FiniteSetTheorems

-----------------------------------------------------------------------------
(* DummyEvSlac.                                                            *)

(* A thread that began when the other was not at work, and was not joined  *)
(* by it, finds the state as it left it and publishes that.                *)
ReadyAlone ==
    /\ matcher = "start" => state # "MATCHED" /\ ~published_dlink
    /\ matcher = "start_publish" =>
          ready_copy = state /\ state # "MATCHED" /\ ~published_dlink
    /\ matcher = "match" => state = "MATCHING"
    /\ matcher = "copy" => state = "MATCHED"
    /\ matcher = "publish_state" => state = "MATCHED" /\ ready_copy = state
    /\ matcher = "publish_dlink" => state = "MATCHED" /\ published_state = state

HandlerAlone ==
    /\ command \in {"reset_copy", "reset_publish", "reset_dlink"} =>
          state = "UNMATCHED"
    /\ command \in {"reset_publish", "trigger_publish"} => handler_copy = state
    /\ command = "reset_dlink" => published_state = state
    /\ command \in {"trigger_copy", "trigger_publish"} => state = "MATCHING"

Agreed == /\ published_state = state
          /\ state = "UNMATCHED" => ~published_dlink
          /\ state = "MATCHED" => published_dlink

OneAtATime ==
    /\ Slac!Sleeping \/ command = "none"
    /\ ReadyAlone /\ HandlerAlone
    /\ command = "none" /\ matcher = "look" => Agreed

(* The countdown is full when a matching begins, but for a reset during    *)
(* the one before; what is gone of it has been waited for.                 *)
CountedDown ==
    /\ matcher \in {"start", "start_publish", "match"} => state # "MATCHED"
    /\ state = "MATCHED" /\ matcher = "look" =>
          remaining = Slac!seconds_until_match
    /\ \/ reset
       \/ /\ state = "MATCHED" => waited = Slac!seconds_until_match
          /\ matcher = "match" =>
                state = "MATCHING" /\ waited = Slac!seconds_until_match
          /\ matcher \in {"start", "start_publish", "look"} =>
                /\ state = "UNMATCHED" => remaining = Slac!seconds_until_match
                /\ state = "MATCHING" =>
                      waited + remaining >= Slac!seconds_until_match

SlacInv == /\ Slac!SlacTypeOK /\ CountedDown
           /\ matcher = "start" => state # "MATCHED" /\ ~published_dlink
           /\ overlapped \/ OneAtATime

(* The invariant holds at first ...                                        *)
LEMMA SlacInit == Slac!SlacInit => SlacInv
<1> SUFFICES ASSUME Slac!SlacInit PROVE SlacInv
  OBVIOUS
<1> USE DEF Slac!SlacInit
<1>1. Slac!SlacTypeOK
  <2>1. remaining \in 0 .. Slac!seconds_until_match /\ waited \in 0 .. 5
    BY DEF Slac!seconds_until_match
  <2>2. {state, ready_copy, handler_copy} \subseteq Slac!States
    BY DEF Slac!States
  <2> QED BY <2>1, <2>2 DEF Slac!SlacTypeOK, Slac!seconds_until_match
<1>2. CountedDown
  BY DEF CountedDown
<1>3. OneAtATime
  BY DEF OneAtATime, Slac!Sleeping, ReadyAlone, HandlerAlone
<1> QED BY <1>1, <1>2, <1>3 DEF SlacInv

(* ... and every step of ready() ...                                       *)
LEMMA ReadyNext == ASSUME SlacInv, Slac!ReadyStep PROVE SlacInv'
<1> USE DEF Slac!seconds_until_match, Slac!Sleeping
<1>0. /\ Slac!SlacTypeOK /\ CountedDown /\ (overlapped \/ OneAtATime)
      /\ matcher = "start" => state # "MATCHED" /\ ~published_dlink
      /\ command' = command /\ reset' = reset /\ handler_copy' = handler_copy
      /\ matcher' # "start"
  BY DEF SlacInv, Slac!SlacTypeOK, Slac!ReadyStep, Slac!Start, Slac!Look,
         Slac!Match, Slac!CopyMatched, Slac!PublishMatched, Slac!PublishLink
<1>1. CASE Slac!Start
  <2>1. Slac!SlacTypeOK'
    BY <1>0, <1>1 DEF Slac!Start, Slac!SlacTypeOK
  <2>2. CountedDown'
    BY <1>0, <1>1 DEF Slac!Start, CountedDown
  <2>3. ~overlapped' => OneAtATime'
    BY <1>0, <1>1
       DEF Slac!Start, OneAtATime, ReadyAlone, HandlerAlone, Agreed
  <2> QED BY <1>0, <2>1, <2>2, <2>3 DEF SlacInv
<1>2. CASE Slac!Look
  <2>1. Slac!SlacTypeOK'
    <3>1. overlapped' \in BOOLEAN
      BY <1>0, <1>2 DEF Slac!Look, Slac!SlacTypeOK
    <3>2. /\ matcher' \in {"look", "match"} /\ remaining' \in 0 .. 5
          /\ waited' \in 0 .. 5
      BY <1>0, <1>2 DEF Slac!Look, Slac!SlacTypeOK
    <3>3. UNCHANGED <<state, command, ready_copy, handler_copy, published_state,
                      published_dlink, reset>>
      BY <1>2 DEF Slac!Look
    <3> QED BY <1>0, <3>1, <3>2, <3>3 DEF Slac!SlacTypeOK
  <2>2. CountedDown'
    BY <1>0, <1>2 DEF Slac!Look, Slac!SlacTypeOK, CountedDown
  <2>3. ~overlapped' => OneAtATime'
    BY <1>0, <1>2
       DEF Slac!Look, OneAtATime, ReadyAlone, HandlerAlone, Agreed
  <2> QED BY <1>0, <2>1, <2>2, <2>3 DEF SlacInv
<1>3. CASE Slac!Match
  <2>1. Slac!SlacTypeOK'
    BY <1>0, <1>3 DEF Slac!Match, Slac!SlacTypeOK, Slac!States
  <2>2. CountedDown'
    BY <1>0, <1>3 DEF Slac!Match, CountedDown
  <2>3. ~overlapped' => OneAtATime'
    BY <1>0, <1>3
       DEF Slac!Match, OneAtATime, ReadyAlone, HandlerAlone, Agreed
  <2> QED BY <1>0, <2>1, <2>2, <2>3 DEF SlacInv
<1>4. CASE Slac!CopyMatched
  <2>1. Slac!SlacTypeOK'
    BY <1>0, <1>4 DEF Slac!CopyMatched, Slac!SlacTypeOK
  <2>2. CountedDown'
    BY <1>0, <1>4 DEF Slac!CopyMatched, CountedDown
  <2>3. ~overlapped' => OneAtATime'
    BY <1>0, <1>4
       DEF Slac!CopyMatched, OneAtATime, ReadyAlone, HandlerAlone, Agreed
  <2> QED BY <1>0, <2>1, <2>2, <2>3 DEF SlacInv
<1>5. CASE Slac!PublishMatched
  <2>1. Slac!SlacTypeOK'
    BY <1>0, <1>5 DEF Slac!PublishMatched, Slac!SlacTypeOK
  <2>2. CountedDown'
    BY <1>0, <1>5 DEF Slac!PublishMatched, CountedDown
  <2>3. ~overlapped' => OneAtATime'
    BY <1>0, <1>5
       DEF Slac!PublishMatched, OneAtATime, ReadyAlone, HandlerAlone, Agreed
  <2> QED BY <1>0, <2>1, <2>2, <2>3 DEF SlacInv
<1>6. CASE Slac!PublishLink
  <2>1. Slac!SlacTypeOK'
    BY <1>0, <1>6 DEF Slac!PublishLink, Slac!SlacTypeOK
  <2>2. CountedDown'
    BY <1>0, <1>6 DEF Slac!PublishLink, Slac!SlacTypeOK, CountedDown
  <2>3. ~overlapped' => OneAtATime'
    BY <1>0, <1>6
       DEF Slac!PublishLink, OneAtATime, ReadyAlone, HandlerAlone, Agreed
  <2> QED BY <1>0, <2>1, <2>2, <2>3 DEF SlacInv
<1> QED BY <1>1, <1>2, <1>3, <1>4, <1>5, <1>6 DEF Slac!ReadyStep

(* ... and of a handler keeps it.                                          *)
LEMMA HandlerNext == ASSUME SlacInv, Slac!HandlerStep PROVE SlacInv'
<1> USE DEF Slac!seconds_until_match, Slac!Sleeping
<1>0. /\ Slac!SlacTypeOK /\ CountedDown /\ (overlapped \/ OneAtATime)
      /\ matcher = "start" => state # "MATCHED" /\ ~published_dlink
      /\ UNCHANGED <<matcher, remaining, ready_copy>>
  BY DEF SlacInv, Slac!HandlerStep, Slac!handle_reset,
         Slac!handle_trigger_matching, Slac!CopyState, Slac!PublishState,
         Slac!PublishNoLink
<1>1. CASE Slac!handle_reset
  <2>1. Slac!SlacTypeOK'
    BY <1>0, <1>1 DEF Slac!handle_reset, Slac!SlacTypeOK, Slac!States
  <2>2. CountedDown'
    BY <1>0, <1>1
       DEF Slac!handle_reset, Slac!SlacTypeOK, Slac!States, CountedDown
  <2>3. ~overlapped' => OneAtATime'
    BY <1>0, <1>1 DEF Slac!handle_reset, OneAtATime, ReadyAlone, HandlerAlone
  <2> QED BY <1>0, <1>1, <2>1, <2>2, <2>3 DEF SlacInv, Slac!handle_reset
<1>2. CASE Slac!handle_trigger_matching
  <2>1. Slac!SlacTypeOK'
    BY <1>0, <1>2 DEF Slac!handle_trigger_matching, Slac!SlacTypeOK, Slac!States
  <2>2. CountedDown'
    BY <1>0, <1>2
       DEF Slac!handle_trigger_matching, Slac!SlacTypeOK, Slac!States, CountedDown
  <2>3. ~overlapped' => OneAtATime'
    BY <1>0, <1>2
       DEF Slac!handle_trigger_matching, OneAtATime, ReadyAlone, HandlerAlone
  <2> QED BY <1>0, <1>2, <2>1, <2>2, <2>3
             DEF SlacInv, Slac!handle_trigger_matching
<1>3. CASE Slac!CopyState
  <2>1. Slac!SlacTypeOK'
    BY <1>0, <1>3 DEF Slac!CopyState, Slac!SlacTypeOK
  <2>2. CountedDown'
    BY <1>0, <1>3 DEF Slac!CopyState, CountedDown
  <2>3. ~overlapped' => OneAtATime'
    BY <1>0, <1>3 DEF Slac!CopyState, OneAtATime, ReadyAlone, HandlerAlone
  <2> QED BY <1>0, <1>3, <2>1, <2>2, <2>3 DEF SlacInv, Slac!CopyState
<1>4. CASE Slac!PublishState
  <2>1. Slac!SlacTypeOK'
    BY <1>0, <1>4 DEF Slac!PublishState, Slac!SlacTypeOK
  <2>2. CountedDown'
    BY <1>0, <1>4 DEF Slac!PublishState, CountedDown
  <2>3. ~overlapped' => OneAtATime'
    BY <1>0, <1>4
       DEF Slac!PublishState, OneAtATime, ReadyAlone, HandlerAlone, Agreed
  <2> QED BY <1>0, <1>4, <2>1, <2>2, <2>3 DEF SlacInv, Slac!PublishState
<1>5. CASE Slac!PublishNoLink
  <2>1. Slac!SlacTypeOK'
    BY <1>0, <1>5 DEF Slac!PublishNoLink, Slac!SlacTypeOK
  <2>2. CountedDown'
    BY <1>0, <1>5 DEF Slac!PublishNoLink, CountedDown
  <2>3. ~overlapped' => OneAtATime'
    BY <1>0, <1>5
       DEF Slac!PublishNoLink, OneAtATime, ReadyAlone, HandlerAlone, Agreed
  <2> QED BY <1>0, <1>5, <2>1, <2>2, <2>3 DEF SlacInv, Slac!PublishNoLink
<1> QED BY <1>1, <1>2, <1>3, <1>4, <1>5 DEF Slac!HandlerStep

LEMMA SlacSafe == SlacInv => Slac!SlacTypeOK /\ Slac!LinkAgrees
  BY DEF SlacInv, CountedDown, OneAtATime, Agreed, Slac!LinkAgrees

-----------------------------------------------------------------------------
(* EVDevInput.                                                             *)

(* Of the keys t, p says how many come before each position in the queue   *)
(* q: the keys released in the queue are the last ones typed, in the order *)
(* in which they were typed.                                               *)
Reads(p, q, t) ==
    /\ p \in [0 .. Len(q) -> 0 .. Len(t)]
    /\ p[Len(q)] = Len(t)
    /\ \A i \in 1 .. Len(q) :
          IF q[i].value = 0
          THEN p[i] = p[i - 1] + 1 /\ t[p[i]].key = q[i].key
          ELSE p[i] = p[i - 1]
    /\ \A i, j \in 0 .. Len(q) : i <= j => p[i] <= p[j]

(* The n keys read, when q is what is left of the queue after the keys t.  *)
AreRead(n, q, t) == \E p : Reads(p, q, t) /\ p[0] = n

(* Nothing is missing in the queue.                                        *)
Whole == \A i \in DOMAIN queue : queue[i] # Input!Dropped

(* The token collected is the line after the first n keys.                 *)
Clean(n) == Whole /\ id_token = Input!LineAt(n)

(* What has been published after the first n keys.  If the token collected *)
(* is not what was typed there has been one more overflow than tokens      *)
(* spoilt so far.                                                          *)
TokensRead(n) ==
    /\ overflows = 0 => /\ Clean(n)
                        /\ Len(published) = Cardinality(Input!EntersTo(n))
                        /\ \A i \in DOMAIN published : Input!Right(i)
    /\ Cardinality(Input!Spoilt) <= overflows
    /\ Clean(n) \/ Cardinality(Input!Spoilt) < overflows

StopsRead(n) ==
    /\ Len(published) <= Cardinality(Input!StopsTo(n))
    /\ overflows = 0 => /\ Whole
                        /\ Len(published) = Cardinality(Input!StopsTo(n))

Read(n) == IF consumer = "token_provider" THEN TokensRead(n) ELSE StopsRead(n)

(* The lines are the ones typed, and only the first in the queue says that *)
(* others are missing.                                                     *)
InputInv ==
    /\ Input!InputTypeOK
    /\ \A j \in DOMAIN typed : typed[j].line = Input!LineAt(j - 1)
    /\ \A i \in DOMAIN queue : i > 1 => queue[i] # Input!Dropped
    /\ \E n \in 0 .. Len(typed) : AreRead(n, queue, typed) /\ Read(n)

Events == [key : Input!Keys, value : {0, 1, 2, 9}]
Typed  == [key : Input!Keys, line : Seq(Chars)]

(* The keys read remain so when something is typed and the queue goes on, ... *)
LEMMA ReadsOn ==
    ASSUME NEW q \in Seq(Events), NEW t \in Seq(Typed), NEW n,
           AreRead(n, q, t), NEW e \in Events, NEW k \in Typed, NEW t2,
           t2 = IF e.value = 0 THEN Append(t, k) ELSE t,
           e.value = 0 => k.key = e.key
    PROVE  AreRead(n, Append(q, e), t2)
<1>1. PICK p : Reads(p, q, t) /\ p[0] = n
  BY DEF AreRead
<1>2. /\ Len(q) \in Nat /\ Len(t) \in Nat
      /\ Len(Append(q, e)) = Len(q) + 1
      /\ \A i \in 1 .. Len(q) : Append(q, e)[i] = q[i]
      /\ Append(q, e)[Len(q) + 1] = e
  OBVIOUS
<1>3. /\ Len(t2) = IF e.value = 0 THEN Len(t) + 1 ELSE Len(t)
      /\ \A i \in 1 .. Len(t) : t2[i] = t[i]
      /\ e.value = 0 => t2[Len(t2)] = k
  OBVIOUS
<1> DEFINE m  == Len(q)
           q2 == Append(q, e)
           pp == [i \in 0 .. m + 1 |-> IF i <= m THEN p[i] ELSE Len(t2)]
<1>4. /\ \A i \in 0 .. m : p[i] \in 0 .. Len(t) /\ pp[i] = p[i]
      /\ pp[m + 1] = Len(t2) /\ p[m] = Len(t)
  BY <1>1, <1>2 DEF Reads
<1>5. pp \in [0 .. m + 1 -> 0 .. Len(t2)]
  <2>1. 0 .. Len(t) \subseteq 0 .. Len(t2) /\ Len(t2) \in 0 .. Len(t2)
    BY <1>2, <1>3
  <2>2. \A i \in 0 .. m + 1 : i <= m => i \in 0 .. m
    BY <1>2
  <2>3. \A i \in 0 .. m + 1 : (IF i <= m THEN p[i] ELSE Len(t2)) \in 0 .. Len(t2)
    BY <1>4, <2>1, <2>2
  <2> QED BY <2>3
<1>6. \A i \in 1 .. m + 1 : IF q2[i].value = 0
                            THEN pp[i] = pp[i - 1] + 1 /\ t2[pp[i]].key = q2[i].key
                            ELSE pp[i] = pp[i - 1]
  <2> TAKE i \in 1 .. m + 1
  <2>1. CASE i = m + 1
    <3>1. pp[i] = Len(t2) /\ pp[i - 1] = Len(t) /\ q2[i] = e
      BY <1>2, <1>4, <2>1
    <3> QED BY <1>3, <3>1
  <2>2. CASE i # m + 1
    <3>1. i \in 1 .. m /\ i - 1 \in 0 .. m /\ i \in 0 .. m
      BY <1>2, <2>2
    <3>2. pp[i] = p[i] /\ pp[i - 1] = p[i - 1] /\ q2[i] = q[i]
          /\ p[i] \in 0 .. Len(t) /\ p[i - 1] \in 0 .. Len(t)
      BY <1>2, <1>4, <3>1
    <3>3. IF q[i].value = 0 THEN p[i] = p[i - 1] + 1 /\ t[p[i]].key = q[i].key
                            ELSE p[i] = p[i - 1]
      BY <1>1, <3>1 DEF Reads
    <3>4. p[i] = p[i - 1] + 1 => t2[p[i]] = t[p[i]]
      <4> HAVE p[i] = p[i - 1] + 1
      <4>1. p[i] \in 1 .. Len(t)
        BY <1>2, <3>2
      <4> QED BY <1>3, <4>1
    <3> HIDE DEF pp, q2
    <3> QED BY <3>2, <3>3, <3>4
  <2> QED BY <2>1, <2>2
<1>7. \A i, j \in 0 .. m + 1 : i <= j => pp[i] <= pp[j]
  <2>1. \A i, j \in 0 .. m : i <= j => p[i] <= p[j]
    BY <1>1 DEF Reads
  <2>2. \A i \in 0 .. m + 1 : i \in 0 .. m \/ i = m + 1
    BY <1>2
  <2>3. \A i \in 0 .. m + 1 : pp[i] <= Len(t2) /\ pp[i] \in Nat
    BY <1>2, <1>5
  <2>4. ~(m + 1 <= m) /\ \A i \in 0 .. m : ~(m + 1 <= i)
    BY <1>2
  <2> HIDE DEF pp, m
  <2> QED BY <1>4, <2>1, <2>2, <2>3, <2>4
<1>8. Reads(pp, q2, t2)
  <2>1. Len(q2) = m + 1
    BY <1>2
  <2> HIDE DEF pp, q2, m
  <2> QED BY <1>4, <1>5, <1>6, <1>7, <2>1 DEF Reads
<1>9. pp[0] = n
  BY <1>1, <1>2, <1>4
<1> HIDE DEF pp, q2
<1> QED BY <1>8, <1>9 DEF AreRead, q2

(* ... when the queue is read from the front, ...                          *)
LEMMA ReadsMore ==
    ASSUME NEW q \in Seq(Events), NEW t \in Seq(Typed), NEW p, Reads(p, q, t),
           NEW m \in 0 .. Len(q), NEW q2 \in Seq(Events),
           Len(q2) = Len(q) - m,
           \A i \in 1 .. Len(q) - m : q2[i] = q[i + m]
    PROVE  AreRead(p[m], q2, t) /\ p[m] \in 0 .. Len(t) /\ p[0] <= p[m]
<1>1. Len(q) \in Nat /\ Len(t) \in Nat /\ Len(q) - m \in Nat /\ m \in Nat
  OBVIOUS
<1> DEFINE l  == Len(q) - m
           pp == [i \in 0 .. l |-> p[i + m]]
<1>2. \A i \in 0 .. l : i + m \in 0 .. Len(q) /\ pp[i] = p[i + m]
                        /\ pp[i] \in 0 .. Len(t)
  <2> SUFFICES ASSUME NEW i \in 0 .. l
               PROVE  i + m \in 0 .. Len(q) /\ p[i + m] \in 0 .. Len(t)
    OBVIOUS
  <2>1. i + m \in 0 .. Len(q)
    BY <1>1
  <2> QED BY <2>1 DEF Reads
<1>3. pp \in [0 .. l -> 0 .. Len(t)] /\ pp[l] = Len(t)
  <2>1. l + m = Len(q) /\ l \in 0 .. l
    BY <1>1
  <2> QED BY <1>2, <2>1 DEF Reads
<1>4. \A i \in 1 .. l : IF q2[i].value = 0
                        THEN pp[i] = pp[i - 1] + 1 /\ t[pp[i]].key = q2[i].key
                        ELSE pp[i] = pp[i - 1]
  <2> TAKE i \in 1 .. l
  <2>1. i + m \in 1 .. Len(q) /\ i \in 0 .. l /\ i - 1 \in 0 .. l
        /\ (i - 1) + m = (i + m) - 1
    BY <1>1
  <2>2. pp[i] = p[i + m] /\ pp[i - 1] = p[(i + m) - 1] /\ q2[i] = q[i + m]
    BY <1>2, <2>1
  <2> HIDE DEF pp
  <2> QED BY <2>1, <2>2 DEF Reads
<1>5. \A i, j \in 0 .. l : i <= j => pp[i] <= pp[j]
  <2> SUFFICES ASSUME NEW i \in 0 .. l, NEW j \in 0 .. l, i <= j
               PROVE  pp[i] <= pp[j]
    OBVIOUS
  <2>1. i + m <= j + m
    BY <1>1
  <2> HIDE DEF pp
  <2> QED BY <1>2, <2>1 DEF Reads
<1>6. Reads(pp, q2, t)
  <2> HIDE DEF pp
  <2> QED BY <1>3, <1>4, <1>5 DEF Reads
<1>7. pp[0] = p[m] /\ p[m] \in 0 .. Len(t) /\ p[0] <= p[m]
  <2>1. 0 \in 0 .. l /\ 0 + m = m /\ 0 \in 0 .. Len(q) /\ 0 <= m
    BY <1>1
  <2> QED BY <1>2, <2>1 DEF Reads
<1> HIDE DEF pp
<1> QED BY <1>6, <1>7 DEF AreRead

(* ... and when it overflows all that was typed before is.                 *)
LEMMA ReadsNothing ==
    ASSUME NEW t \in Seq(Typed)
    PROVE  AreRead(Len(t), <<Input!Dropped>>, t) /\ AreRead(Len(t), <<>>, t)
<1> DEFINE p1 == [i \in 0 .. 1 |-> Len(t)]
           p0 == [i \in 0 .. 0 |-> Len(t)]
<1>1. Len(t) \in Nat /\ Len(t) \in 0 .. Len(t)
  OBVIOUS
<1>2. Reads(p1, <<Input!Dropped>>, t)
  BY <1>1 DEF Reads, Input!Dropped
<1>3. Reads(p0, <<>>, t)
  BY <1>1 DEF Reads
<1>4. p0[0] = Len(t) /\ p1[0] = Len(t)
  OBVIOUS
<1> HIDE DEF p0, p1
<1> QED BY <1>2, <1>3, <1>4 DEF AreRead

(* EVDevInput counts as this module does.                                  *)
LEMMA SameCardinality == \A S : Input!Cardinality(S) = Cardinality(S)
  BY DEF Input!Cardinality, Cardinality

(* A line is made up of characters.                                        *)
LEMMA LineType ==
    ASSUME typed \in Seq(Typed), NEW n \in 0 .. Len(typed)
    PROVE  Input!LineAt(n) \in Seq(Chars)
<1>1. n # 0 => typed[n] \in Typed
  OBVIOUS
<1> QED BY <1>1 DEF Input!LineAt, Typed

(* The keys up to a certain one can be counted ...                         *)
LEMMA Counted ==
    ASSUME typed \in Seq(Typed), NEW n \in 0 .. Len(typed)
    PROVE  /\ IsFiniteSet(Input!EntersTo(n)) /\ IsFiniteSet(Input!StopsTo(n))
           /\ Cardinality(Input!EntersTo(n)) \in Nat
           /\ Cardinality(Input!StopsTo(n)) \in Nat
           /\ \A m \in 0 .. n : Cardinality(Input!StopsTo(m))
                                    <= Cardinality(Input!StopsTo(n))
<1>1. n \in Nat /\ 1 \in Int /\ n \in Int
  OBVIOUS
<1>2. IsFiniteSet(1 .. n)
  BY <1>1, FS_Interval
<1>3. Input!EntersTo(n) \in SUBSET (1 .. n) /\ Input!StopsTo(n) \in SUBSET (1 .. n)
  BY DEF Input!EntersTo, Input!StopsTo
<1>4. IsFiniteSet(Input!EntersTo(n)) /\ IsFiniteSet(Input!StopsTo(n))
  BY <1>2, <1>3, FS_Subset
<1>5. \A m \in 0 .. n : Input!StopsTo(m) \in SUBSET Input!StopsTo(n)
  BY DEF Input!StopsTo
<1> QED BY <1>4, <1>5, FS_Subset, FS_CardinalityType

(* ... one after the other.                                                *)
LEMMA OneMore ==
    ASSUME typed \in Seq(Typed), NEW n \in 0 .. Len(typed), n + 1 <= Len(typed)
    PROVE  /\ Cardinality(Input!EntersTo(n + 1)) =
                  IF typed[n + 1].key = Enter
                  THEN Cardinality(Input!EntersTo(n)) + 1
                  ELSE Cardinality(Input!EntersTo(n))
           /\ Cardinality(Input!StopsTo(n + 1)) =
                  IF typed[n + 1].key = Stop
                  THEN Cardinality(Input!StopsTo(n)) + 1
                  ELSE Cardinality(Input!StopsTo(n))
<1>1. IsFiniteSet(Input!EntersTo(n)) /\ IsFiniteSet(Input!StopsTo(n))
  BY Counted
<1>2. /\ n + 1 \notin Input!EntersTo(n) /\ n + 1 \notin Input!StopsTo(n)
      /\ Input!EntersTo(n + 1) = IF typed[n + 1].key = Enter
                                 THEN Input!EntersTo(n) \cup {n + 1}
                                 ELSE Input!EntersTo(n)
      /\ Input!StopsTo(n + 1) = IF typed[n + 1].key = Stop
                                THEN Input!StopsTo(n) \cup {n + 1}
                                ELSE Input!StopsTo(n)
  <2>1. \A j \in DOMAIN typed : j <= n + 1 <=> j <= n \/ j = n + 1
    OBVIOUS
  <2>2. n + 1 \in DOMAIN typed /\ ~(n + 1 <= n)
    OBVIOUS
  <2> QED BY <2>1, <2>2 DEF Input!EntersTo, Input!StopsTo
<1>3. Cardinality(Input!EntersTo(n) \cup {n + 1}) = Cardinality(Input!EntersTo(n)) + 1
  BY <1>1, <1>2, FS_AddElement
<1>4. Cardinality(Input!StopsTo(n) \cup {n + 1}) = Cardinality(Input!StopsTo(n)) + 1
  BY <1>1, <1>2, FS_AddElement
<1> QED BY <1>2, <1>3, <1>4

(* What is typed later changes nothing before it.                          *)
LEMMA HistoryKept ==
    ASSUME typed \in Seq(Typed), NEW k \in Typed,
           typed' = typed \/ typed' = Append(typed, k),
           NEW n \in 0 .. Len(typed)
    PROVE  /\ Input!EntersTo(n)' = Input!EntersTo(n)
           /\ Input!StopsTo(n)' = Input!StopsTo(n)
           /\ Input!LineAt(n)' = Input!LineAt(n)
<1>1. /\ DOMAIN typed \subseteq DOMAIN typed'
      /\ \A j \in DOMAIN typed : typed'[j] = typed[j]
      /\ \A j \in DOMAIN typed' : j <= n => j \in DOMAIN typed
      /\ n # 0 => n \in DOMAIN typed
  OBVIOUS
<1>2. Input!EntersTo(n)' = Input!EntersTo(n) /\ Input!StopsTo(n)' = Input!StopsTo(n)
  BY <1>1 DEF Input!EntersTo, Input!StopsTo
<1> QED BY <1>1, <1>2 DEF Input!LineAt

LEMMA SpoiltCounted ==
    ASSUME NEW S, published \in Seq(S)
    PROVE  IsFiniteSet(Input!Spoilt) /\ Cardinality(Input!Spoilt) \in Nat
<1>1. Len(published) \in Int /\ 1 \in Int
  OBVIOUS
<1>2. IsFiniteSet(1 .. Len(published))
  BY <1>1, FS_Interval
<1>3. Input!Spoilt \in SUBSET (1 .. Len(published))
  BY DEF Input!Spoilt
<1> QED BY <1>2, <1>3, FS_Subset, FS_CardinalityType

LEMMA TokensKept ==
    ASSUME typed \in Seq(Typed), NEW k \in Typed,
           typed' = typed \/ typed' = Append(typed, k),
           NEW S, published \in Seq(S), published' = published
    PROVE  /\ \A i \in DOMAIN published : Input!Right(i) => Input!Right(i)'
           /\ Cardinality(Input!Spoilt)' <= Cardinality(Input!Spoilt)
           /\ Cardinality(Input!Spoilt)' \in Nat
<1>1. \A j \in DOMAIN typed : /\ j \in DOMAIN typed' /\ typed'[j] = typed[j]
                              /\ j \in 0 .. Len(typed)
                              /\ j <= Len(typed) /\ j <= Len(typed')
  <2>1. CASE typed' = typed
    BY <2>1
  <2>2. CASE typed' = Append(typed, k)
    BY <2>2
  <2> QED BY <2>1, <2>2
<1>2. \A j \in Input!Enters : /\ j \in Input!Enters' /\ typed'[j].line = typed[j].line
                              /\ j \in 0 .. Len(typed)
  BY <1>1 DEF Input!Enters, Input!EntersTo
<1>3. \A j \in 0 .. Len(typed) : Input!EntersTo(j)' = Input!EntersTo(j)
  BY HistoryKept
<1>4. \A i \in DOMAIN published : Input!Right(i) => Input!Right(i)'
  BY <1>2, <1>3 DEF Input!Right, Input!Trimmed
<1>5. Input!Spoilt' \in SUBSET Input!Spoilt
  BY <1>2 DEF Input!Spoilt, Input!Trimmed
<1> QED BY <1>4, <1>5, SpoiltCounted, FS_Subset, FS_CardinalityType

(* What is read of the queue at first, ...                                 *)
LEMMA InputInit == Input!InputInit => InputInv
<1> SUFFICES ASSUME Input!InputInit PROVE InputInv
  OBVIOUS
<1>1. Input!InputTypeOK
  <2>1. MaxOverflows \in Nat /\ QueueBound \in Nat
    BY Constants DEF Input!InputParameters
  <2>2. <<>> \in Seq(Chars) /\ <<>> \in Seq(Seq(Input!Keys)) /\ <<>> \in Seq(Typed)
        /\ <<>> \in Seq(Events) /\ Len(<<>>) = 0
    OBVIOUS
  <2>3. 0 \in 0 .. MaxOverflows /\ 0 <= QueueBound
    BY <2>1
  <2> QED BY <2>2, <2>3 DEF Input!InputInit, Input!InputTypeOK, Typed, Events
<1>2. typed = <<>> /\ typed \in Seq(Typed) /\ 0 \in 0 .. Len(typed) /\ Len(typed) = 0
      /\ queue = <<>> /\ published = <<>> /\ id_token = <<>> /\ overflows = 0
      /\ DOMAIN typed = {} /\ DOMAIN queue = {} /\ DOMAIN published = {}
      /\ Len(published) = 0
  BY DEF Input!InputInit
<1>3. AreRead(0, queue, typed)
  BY <1>2, ReadsNothing
<1>4. Whole /\ Clean(0)
  BY <1>2 DEF Whole, Clean, Input!LineAt
<1>5. /\ Input!EntersTo(0) = {} /\ Input!StopsTo(0) = {} /\ Input!Spoilt = {}
  BY <1>2 DEF Input!EntersTo, Input!StopsTo, Input!Spoilt
<1>6. TokensRead(0) /\ StopsRead(0)
  BY <1>2, <1>4, <1>5, FS_EmptySet DEF TokensRead, StopsRead
<1> QED BY <1>1, <1>2, <1>3, <1>6 DEF InputInv, Read

(* ... what an event adds to it, ...                                       *)
LEMMA QueueNext ==
    ASSUME InputInv, NEW k \in Input!Keys, NEW v \in {0, 1, 2},
           Input!Queues(Input!Event(k, v)), Input!DeviceUnchanged,
           down' \subseteq Input!Keys,
           typed' = IF v = 0
                    THEN Append(typed, [key |-> k, line |-> Input!LineAt(Len(typed))])
                    ELSE typed
    PROVE  InputInv'
<1> DEFINE e == Input!Event(k, v)
           x == [key |-> k, line |-> Input!LineAt(Len(typed))]
<1>1. PICK n \in 0 .. Len(typed) : AreRead(n, queue, typed) /\ Read(n)
  BY DEF InputInv
<1>2. /\ Input!InputTypeOK /\ typed \in Seq(Typed) /\ queue \in Seq(Events)
      /\ published \in Seq(Seq(Input!Keys))
      /\ Len(queue) \in Nat /\ Len(typed) \in Nat /\ Len(typed) \in 0 .. Len(typed)
      /\ published' = published /\ id_token' = id_token /\ consumer' = consumer
      /\ plugged' = plugged /\ reading' = reading /\ loop' = loop
      /\ overflows \in 0 .. MaxOverflows
  BY DEF InputInv, Input!InputTypeOK, Typed, Events, Input!DeviceUnchanged
<1>3. e \in Events /\ e # Input!Dropped /\ e.value = v /\ e.key = k
  BY DEF Input!Event, Input!Dropped, Events
<1>4. x \in Typed /\ x.key = k
  BY <1>2, LineType DEF Typed
<1>5. PICK c \in Typed : c = x
  BY <1>4
<1>6. /\ typed' = IF v = 0 THEN Append(typed, c) ELSE typed
      /\ c.key = k /\ c.line = Input!LineAt(Len(typed))
  BY <1>4, <1>5
<1>7. PICK d \in Events : d = e
  BY <1>3
<1>8. d # Input!Dropped /\ d.value = v /\ d.key = k /\ Input!Queues(d)
  BY <1>3, <1>7
<1> HIDE DEF x, e
<1>9. /\ typed' = typed \/ typed' = Append(typed, c)
      /\ typed' \in Seq(Typed) /\ Len(typed') \in Nat
      /\ 0 .. Len(typed) \subseteq 0 .. Len(typed')
      /\ DOMAIN typed = 1 .. Len(typed) /\ DOMAIN typed' = 1 .. Len(typed')
      /\ \A j \in DOMAIN typed : typed'[j] = typed[j]
      /\ v = 0 => typed'[Len(typed')] = c /\ Len(typed') = Len(typed) + 1
      /\ v # 0 => Len(typed') = Len(typed)
  BY <1>2, <1>6
<1>10. \A j \in DOMAIN typed' : typed'[j].line = Input!LineAt(j - 1)'
  <2> SUFFICES ASSUME NEW j \in DOMAIN typed'
               PROVE  typed'[j].line = Input!LineAt(j - 1)'
    OBVIOUS
  <2>0. j - 1 \in 0 .. Len(typed)
    <3>1. j \in 1 .. Len(typed')
      BY <1>9, Zenon
    <3>2. Len(typed') <= Len(typed) + 1 /\ Len(typed') \in Nat /\ Len(typed) \in Nat
      BY <1>2, <1>6
    <3> QED BY <3>1, <3>2
  <2>1a. Input!LineAt(j - 1)' = Input!LineAt(j - 1)
    <3>1. PICK i \in 0 .. Len(typed) : i = j - 1
      BY <2>0
    <3>2. typed \in Seq(Typed) /\ (typed' = typed \/ typed' = Append(typed, c))
      BY <1>2, <1>9
    <3>3. Input!LineAt(i)' = Input!LineAt(i)
      BY <3>2, HistoryKept
    <3> QED BY <3>1, <3>3
  <2>1. CASE j \in DOMAIN typed
    <3>1. typed[j].line = Input!LineAt(j - 1)
      BY <2>1 DEF InputInv
    <3> QED BY <1>9, <2>1a, <2>1, <3>1
  <2>2. CASE j \notin DOMAIN typed
    <3>1. v = 0 /\ j = Len(typed') /\ j - 1 = Len(typed)
      <4>1. j \in 1 .. Len(typed') /\ j \notin 1 .. Len(typed)
        BY <1>9, <2>2, Zenon
      <4>2. Len(typed') = IF v = 0 THEN Len(typed) + 1 ELSE Len(typed)
        BY <1>2, <1>6
      <4>3. Len(typed) \in Nat
        BY <1>2
      <4> QED BY <4>1, <4>2, <4>3
    <3>2. typed'[j] = c
      BY <1>9, <3>1, Zenon
    <3>3. Input!LineAt(j - 1) = Input!LineAt(Len(typed))
      BY <3>1
    <3> QED BY <1>6, <2>1a, <3>2, <3>3, Zenon
  <2> QED BY <2>1, <2>2
<1>11. /\ \A i \in DOMAIN published : Input!Right(i) => Input!Right(i)'
       /\ Cardinality(Input!Spoilt)' <= Cardinality(Input!Spoilt)
       /\ Cardinality(Input!Spoilt) \in Nat /\ Cardinality(Input!Spoilt)' \in Nat
  <2>1. published \in Seq(Seq(Input!Keys)) /\ published' = published
        /\ typed \in Seq(Typed)
    BY <1>2
  <2>2. typed' = typed \/ typed' = Append(typed, c)
    BY <1>9
  <2>3. /\ \A i \in DOMAIN published : Input!Right(i) => Input!Right(i)'
        /\ Cardinality(Input!Spoilt)' <= Cardinality(Input!Spoilt)
        /\ Cardinality(Input!Spoilt)' \in Nat
    BY <2>1, <2>2, TokensKept
  <2>4. Cardinality(Input!Spoilt) \in Nat
    BY <2>1, SpoiltCounted
  <2> QED BY <2>3, <2>4
<1>12. CASE Len(queue) < QueueBound
  <2>1. queue' = Append(queue, d) /\ overflows' = overflows
    BY <1>8, <1>12 DEF Input!Queues
  <2>2. /\ queue' \in Seq(Events) /\ Len(queue') = Len(queue) + 1
        /\ \A i \in DOMAIN queue : queue'[i] = queue[i]
        /\ \A i \in DOMAIN queue' : i \in DOMAIN queue \/ queue'[i] = d
    BY <1>2, <2>1
  <2>3. Input!InputTypeOK'
    <3>1. Len(queue') <= QueueBound
      BY <1>2, <1>12, <2>2, Constants DEF Input!InputParameters
    <3> QED BY <1>2, <1>9, <2>1, <2>2, <3>1 DEF Input!InputTypeOK, Typed, Events
  <2>4. \A i \in DOMAIN queue' : i > 1 => queue'[i] # Input!Dropped
    BY <1>8, <2>2 DEF InputInv
  <2>5. AreRead(n, queue', typed')
    BY <1>1, <1>2, <1>6, <1>8, <2>1, ReadsOn
  <2>6. Whole => Whole'
    BY <1>8, <2>2 DEF Whole
  <2>7. /\ Input!EntersTo(n)' = Input!EntersTo(n) /\ Input!StopsTo(n)' = Input!StopsTo(n)
        /\ Input!LineAt(n)' = Input!LineAt(n)
    BY <1>2, <1>9, HistoryKept
  <2>8. Read(n)'
    <3>1. Clean(n) => Clean(n)'
      BY <1>2, <2>6, <2>7 DEF Clean
    <3>2. TokensRead(n) => TokensRead(n)'
      <4>1. overflows \in Nat
        BY <1>2
      <4> QED BY <1>2, <1>11, <2>1, <2>7, <3>1, <4>1 DEF TokensRead
    <3>3. StopsRead(n) => StopsRead(n)'
      BY <1>2, <2>1, <2>6, <2>7 DEF StopsRead
    <3> QED BY <1>1, <1>2, <3>2, <3>3 DEF Read
  <2>9. n \in 0 .. Len(typed')
    BY <1>9
  <2> QED BY <1>10, <2>3, <2>4, <2>5, <2>8, <2>9 DEF InputInv
<1>13. CASE ~(Len(queue) < QueueBound)
  <2>1. /\ queue' = <<Input!Dropped, d>> /\ overflows < MaxOverflows
        /\ overflows' = overflows + 1
    BY <1>8, <1>13 DEF Input!Queues
  <2>2. /\ overflows' \in 0 .. MaxOverflows /\ overflows' # 0 /\ overflows < overflows'
        /\ overflows \in Nat /\ overflows' \in Nat
    BY <1>2, <2>1, Constants DEF Input!InputParameters
  <2>3. Input!Dropped \in Events
    BY DEF Input!Dropped, Events, Input!Keys
  <2>4. Input!InputTypeOK'
    <3>1. queue' \in Seq(Events) /\ Len(queue') = 2
      BY <2>1, <2>3
    <3>2. Len(queue') <= QueueBound
      BY <3>1, Constants DEF Input!InputParameters
    <3> QED BY <1>2, <1>9, <2>2, <3>1, <3>2 DEF Input!InputTypeOK, Typed, Events
  <2>5. \A i \in DOMAIN queue' : i > 1 => queue'[i] # Input!Dropped
    BY <1>8, <2>1
  <2>5a. PICK l \in 0 .. Len(typed) : l = Len(typed)
    BY <1>2
  <2>6. AreRead(l, queue', typed')
    <3>1. AreRead(l, <<Input!Dropped>>, typed)
      BY <1>2, <2>5a, ReadsNothing
    <3>2. <<Input!Dropped>> \in Seq(Events) /\ queue' = Append(<<Input!Dropped>>, d)
      BY <2>1, <2>3
    <3> QED BY <1>2, <1>6, <1>8, <3>1, <3>2, ReadsOn
  <2>7. Read(l)'
    <3>1. CASE consumer = "token_provider"
      <4>1. Cardinality(Input!Spoilt) <= overflows
        BY <1>1, <3>1 DEF Read, TokensRead
      <4>2. Cardinality(Input!Spoilt)' < overflows'
        BY <1>11, <2>2, <4>1
      <4>3. Cardinality(Input!Spoilt)' <= overflows'
        BY <1>11, <2>2, <4>2
      <4> QED BY <1>2, <2>2, <3>1, <4>2, <4>3 DEF Read, TokensRead
    <3>2. CASE consumer # "token_provider"
      <4>1. Input!StopsTo(l)' = Input!StopsTo(l)
        BY <1>2, <1>9, HistoryKept
      <4>2. /\ Cardinality(Input!StopsTo(n)) <= Cardinality(Input!StopsTo(l))
            /\ Cardinality(Input!StopsTo(n)) \in Nat
            /\ Cardinality(Input!StopsTo(l)) \in Nat
        <5>1. n \in 0 .. l
          BY <1>2, <2>5a
        <5> QED BY <1>2, <5>1, Counted
      <4>3. Len(published) <= Cardinality(Input!StopsTo(n)) /\ Len(published) \in Nat
        BY <1>1, <1>2, <3>2 DEF Read, StopsRead
      <4>4. Len(published') <= Cardinality(Input!StopsTo(l))'
        BY <1>2, <4>1, <4>2, <4>3
      <4> QED BY <1>2, <2>2, <3>2, <4>4 DEF Read, StopsRead
    <3> QED BY <3>1, <3>2
  <2>8. l \in 0 .. Len(typed')
    BY <1>9
  <2> QED BY <1>10, <2>4, <2>5, <2>6, <2>7, <2>8 DEF InputInv
<1> QED BY <1>12, <1>13

(* ... and what is left of it.  Behind the first nothing says that         *)
(* something is missing.                                                   *)
LEMMA Rest ==
    ASSUME NEW S, NEW s \in Seq(S), NEW m \in 1 .. Len(s)
    PROVE  /\ SubSeq(s, m + 1, Len(s)) \in Seq(S)
           /\ Len(SubSeq(s, m + 1, Len(s))) = Len(s) - m
           /\ \A i \in 1 .. Len(s) - m : SubSeq(s, m + 1, Len(s))[i] = s[i + m]
<1>1. PICK l \in Nat : l = Len(s)
  OBVIOUS
<1>2. m \in 1 .. l /\ m + 1 \in Int /\ l \in Int
  BY <1>1
<1>3. \A i \in (m + 1) .. l : s[i] \in S
  BY <1>1
<1>4. /\ SubSeq(s, m + 1, l) \in Seq(S)
      /\ Len(SubSeq(s, m + 1, l)) = IF m + 1 <= l THEN l - (m + 1) + 1 ELSE 0
      /\ \A i \in 1 .. l - (m + 1) + 1 : SubSeq(s, m + 1, l)[i] = s[(m + 1) + i - 1]
  BY <1>2, <1>3, SubSeqProperties
<1>5. /\ l - (m + 1) + 1 = l - m
      /\ (IF m + 1 <= l THEN l - (m + 1) + 1 ELSE 0) = l - m
      /\ \A i \in 1 .. l - m : (m + 1) + i - 1 = i + m
  BY <1>2
<1>6. \A i \in 1 .. l - m : SubSeq(s, m + 1, l)[i] = s[i + m]
  BY <1>4, <1>5, Zenon
<1>7. Len(SubSeq(s, m + 1, l)) = l - m
  BY <1>4, <1>5, Zenon
<1> QED BY <1>1, <1>4, <1>6, <1>7, Zenon

LEMMA RestOfQueue ==
    ASSUME InputInv, NEW m \in 1 .. Len(queue), NEW q,
           q = SubSeq(queue, m + 1, Len(queue))
    PROVE  /\ Len(q) = Len(queue) - m /\ q \in Seq(Events)
           /\ \A i \in 1 .. Len(queue) - m : q[i] = queue[i + m]
           /\ \A i \in DOMAIN q : q[i] # Input!Dropped
<1>1. queue \in Seq(Events)
  BY DEF InputInv, Input!InputTypeOK, Events
<1>2. /\ Len(q) = Len(queue) - m /\ q \in Seq(Events)
      /\ \A i \in 1 .. Len(queue) - m : q[i] = queue[i + m]
  BY <1>1, Rest, Zenon
<1>3. \A i \in DOMAIN q : i \in 1 .. Len(queue) - m
  BY <1>2
<1>4. \A i \in 1 .. Len(queue) - m : i + m \in DOMAIN queue /\ i + m > 1
  BY <1>1
<1> QED BY <1>2, <1>3, <1>4 DEF InputInv

(* A key of a tag reader.                                                  *)
LEMMA TokenNext ==
    ASSUME InputInv, NEW n \in 0 .. Len(typed), n + 1 <= Len(typed),
           TokensRead(n), Whole', Input!TokenKey(typed[n + 1].key),
           typed' = typed, overflows' = overflows
    PROVE  TokensRead(n + 1)' /\ id_token' \in Seq(Chars)
           /\ published' \in Seq(Seq(Input!Keys))
<1> DEFINE k == typed[n + 1].key
<1>1. /\ typed \in Seq(Typed) /\ published \in Seq(Seq(Input!Keys))
      /\ id_token \in Seq(Chars) /\ overflows \in Nat
      /\ Enter \notin Chars /\ Trim \in Nat
      /\ n + 1 \in DOMAIN typed /\ n + 1 # 0 /\ (n + 1) - 1 = n
  BY Constants DEF InputInv, Input!InputTypeOK, Input!InputParameters, Typed
<1>2. typed[n + 1].line = Input!LineAt(n) /\ k \in Input!Keys
  <2>1. typed[n + 1] \in Typed
    BY <1>1
  <2>2. typed[n + 1].line = Input!LineAt((n + 1) - 1)
    BY <1>1 DEF InputInv
  <2> QED BY <1>1, <2>1, <2>2 DEF Typed
<1>3. /\ Cardinality(Input!EntersTo(n + 1)) = IF k = Enter
                                              THEN Cardinality(Input!EntersTo(n)) + 1
                                              ELSE Cardinality(Input!EntersTo(n))
      /\ Cardinality(Input!EntersTo(n)) \in Nat
  BY <1>1, OneMore, Counted
<1>4. \A j : Input!EntersTo(j)' = Input!EntersTo(j) /\ Input!LineAt(j)' = Input!LineAt(j)
  BY DEF Input!EntersTo, Input!LineAt
<1>5. Input!LineAt(n + 1) = IF k = Enter THEN <<>>
                            ELSE IF k \in Chars THEN Append(Input!LineAt(n), k)
                                                ELSE Input!LineAt(n)
  BY <1>1, <1>2 DEF Input!LineAt
<1>6. IsFiniteSet(Input!Spoilt) /\ Cardinality(Input!Spoilt) \in Nat
  BY <1>1, SpoiltCounted
<1> HIDE DEF k
<1>7. ASSUME k # Enter PROVE TokensRead(n + 1)' /\ id_token' \in Seq(Chars)
                             /\ published' \in Seq(Seq(Input!Keys))
  <2>1. /\ published' = published
        /\ id_token' = IF k \in Chars THEN Append(id_token, k) ELSE id_token
    BY <1>7 DEF Input!TokenKey, k
  <2>2. Clean(n) => Clean(n + 1)'
    BY <1>4, <1>5, <1>7, <2>1 DEF Clean
  <2>3. /\ \A i \in DOMAIN published : Input!Right(i)' <=> Input!Right(i)
        /\ Cardinality(Input!Spoilt)' = Cardinality(Input!Spoilt)
    BY <2>1 DEF Input!Right, Input!Spoilt, Input!Enters, Input!EntersTo, Input!Trimmed
  <2>4. TokensRead(n + 1)'
    BY <1>3, <1>4, <1>7, <2>1, <2>2, <2>3 DEF TokensRead
  <2> QED BY <1>1, <2>1, <2>4
<1>8. ASSUME k = Enter PROVE TokensRead(n + 1)' /\ id_token' \in Seq(Chars)
                             /\ published' \in Seq(Seq(Input!Keys))
  <2> DEFINE t == Input!Trimmed(id_token)
  <2>1. published' = Append(published, t) /\ id_token' = <<>>
    BY <1>1, <1>8 DEF Input!TokenKey, k
  <2>2. Clean(n + 1)'
    BY <1>4, <1>5, <1>8, <2>1 DEF Clean
  <2>3. t \in Seq(Input!Keys)
    <3>1. id_token \in Seq(Input!Keys)
      BY <1>1 DEF Input!Keys
    <3> QED BY <1>1, <3>1 DEF Input!Trimmed
  <2> HIDE DEF t
  <2>4. /\ published' \in Seq(Seq(Input!Keys)) /\ Len(published') = Len(published) + 1
        /\ \A i \in DOMAIN published : published'[i] = published[i]
        /\ \A i \in DOMAIN published' : i \in DOMAIN published \/ i = Len(published) + 1
        /\ published'[Len(published) + 1] = t
        /\ Len(published) \in Nat
    BY <1>1, <2>1, <2>3
  <2>5. n + 1 \in Input!Enters
    <3>1. n + 1 <= Len(typed)
      OBVIOUS
    <3> QED BY <1>1, <1>8, <3>1 DEF Input!Enters, Input!EntersTo, k
  <2>6. Input!Enters' = Input!Enters
    BY DEF Input!Enters, Input!EntersTo
  <2>7. Clean(n) => published'[Len(published) + 1] = Input!Trimmed(typed[n + 1].line)
    BY <1>2, <2>4 DEF Clean, t
  <2>8. Input!Spoilt' \in SUBSET (Input!Spoilt \cup {Len(published) + 1})
    BY <2>4, <2>6 DEF Input!Spoilt, Input!Trimmed
  <2>9. Clean(n) => Input!Spoilt' \in SUBSET Input!Spoilt
    BY <2>4, <2>5, <2>6, <2>7, <2>8 DEF Input!Spoilt, Input!Trimmed
  <2>10. /\ Cardinality(Input!Spoilt)' <= Cardinality(Input!Spoilt) + 1
         /\ Cardinality(Input!Spoilt)' \in Nat
    <3>0. /\ IsFiniteSet(Input!Spoilt \cup {Len(published) + 1})
          /\ \/ Cardinality(Input!Spoilt \cup {Len(published) + 1}) =
                   Cardinality(Input!Spoilt)
             \/ Cardinality(Input!Spoilt \cup {Len(published) + 1}) =
                   Cardinality(Input!Spoilt) + 1
      BY <1>6, FS_AddElement, Zenon
    <3>1. /\ IsFiniteSet(Input!Spoilt \cup {Len(published) + 1})
          /\ Cardinality(Input!Spoilt \cup {Len(published) + 1})
                <= Cardinality(Input!Spoilt) + 1
          /\ Cardinality(Input!Spoilt \cup {Len(published) + 1}) \in Nat
      BY <1>6, <3>0
    <3>2. /\ IsFiniteSet(Input!Spoilt')
          /\ Cardinality(Input!Spoilt')
                <= Cardinality(Input!Spoilt \cup {Len(published) + 1})
      BY <2>8, <3>1, FS_Subset
    <3>3. Cardinality(Input!Spoilt') \in Nat
      BY <3>2, FS_CardinalityType
    <3> QED BY <1>6, <3>1, <3>2, <3>3
  <2>11. Clean(n) => Cardinality(Input!Spoilt)' <= Cardinality(Input!Spoilt)
    BY <1>6, <2>9, FS_Subset
  <2>12. Cardinality(Input!Spoilt)' <= overflows
    BY <1>1, <1>6, <2>10, <2>11 DEF TokensRead
  <2>13. ASSUME overflows = 0
         PROVE  /\ Len(published') = Cardinality(Input!EntersTo(n + 1))
                /\ \A i \in DOMAIN published' : Input!Right(i)'
    <3>1. /\ Clean(n) /\ Len(published) = Cardinality(Input!EntersTo(n))
          /\ \A i \in DOMAIN published : Input!Right(i)
      BY <2>13 DEF TokensRead
    <3>2. Len(published') = Cardinality(Input!EntersTo(n + 1))
      BY <1>3, <1>8, <2>4, <3>1
    <3>3. \A i \in DOMAIN published : Input!Right(i)'
      BY <2>4, <2>6, <1>4, <3>1 DEF Input!Right, Input!Trimmed
    <3>4. PICK l \in Nat : l = Len(published) + 1
      BY <2>4
    <3>5. Input!Right(l)'
      <4>1. /\ n + 1 \in Input!Enters'
            /\ Cardinality(Input!EntersTo(n + 1))' = l
            /\ published'[l] = Input!Trimmed(typed[n + 1].line)
        <5>1. n + 1 \in Input!Enters'
          BY <2>5, <2>6
        <5>2. Cardinality(Input!EntersTo(n + 1))' = Len(published) + 1
          BY <1>4, <2>4, <3>2
        <5> QED BY <2>7, <3>1, <3>4, <5>1, <5>2
      <4>2. published'[l] = Input!Trimmed(typed'[n + 1].line)
        BY <4>1, Zenon
      <4> QED BY <4>1, <4>2, SameCardinality, Zenon DEF Input!Right, Input!EntersTo
    <3>6. \A i \in DOMAIN published' : i \in DOMAIN published \/ i = l
      BY <2>4, <3>4
    <3> QED BY <3>2, <3>3, <3>5, <3>6
  <2>14. TokensRead(n + 1)'
    BY <1>4, <2>2, <2>12, <2>13 DEF TokensRead
  <2> QED BY <2>1, <2>4, <2>14
<1> QED BY <1>7, <1>8

(* A key of the stop button.                                               *)
LEMMA StopNext ==
    ASSUME InputInv, NEW n \in 0 .. Len(typed), n + 1 <= Len(typed),
           StopsRead(n), Whole', Input!StopKey(typed[n + 1].key),
           typed' = typed, overflows' = overflows
    PROVE  StopsRead(n + 1)' /\ id_token' \in Seq(Chars)
           /\ published' \in Seq(Seq(Input!Keys))
<1> DEFINE k == typed[n + 1].key
<1>1. /\ typed \in Seq(Typed) /\ published \in Seq(Seq(Input!Keys))
      /\ id_token \in Seq(Chars) /\ Len(published) \in Nat
  BY DEF InputInv, Input!InputTypeOK, Typed
<1>2. k \in Input!Keys
  <2>1. typed[n + 1] \in Typed
    BY <1>1
  <2> QED BY <2>1 DEF Typed
<1>3. /\ Cardinality(Input!StopsTo(n + 1)) = IF k = Stop
                                             THEN Cardinality(Input!StopsTo(n)) + 1
                                             ELSE Cardinality(Input!StopsTo(n))
      /\ Cardinality(Input!StopsTo(n)) \in Nat
  BY <1>1, OneMore, Counted
<1>4. \A j : Input!StopsTo(j)' = Input!StopsTo(j)
  BY DEF Input!StopsTo
<1>5. /\ published' = IF k = Stop THEN Append(published, <<k>>) ELSE published
      /\ id_token' = id_token
  BY DEF Input!StopKey
<1> HIDE DEF k
<1>6. <<k>> \in Seq(Input!Keys)
  BY <1>2
<1>7. /\ published' \in Seq(Seq(Input!Keys))
      /\ Len(published') = IF k = Stop THEN Len(published) + 1 ELSE Len(published)
  <2>1. PICK s \in Seq(Input!Keys) : s = <<k>>
    BY <1>6
  <2>2. published' = IF k = Stop THEN Append(published, s) ELSE published
    BY <1>5, <2>1
  <2> QED BY <1>1, <2>2
<1>8. StopsRead(n + 1)'
  BY <1>1, <1>3, <1>4, <1>7 DEF StopsRead
<1> QED BY <1>1, <1>5, <1>7, <1>8

(* A step that reads nothing.                                              *)
LEMMA NothingRead ==
    ASSUME InputInv, Input!InputTypeOK',
           UNCHANGED <<consumer, queue, id_token, published, typed, overflows>>
    PROVE  InputInv'
<1>1. PICK n \in 0 .. Len(typed) : AreRead(n, queue, typed) /\ Read(n)
  BY DEF InputInv
<1>2. /\ \A j : Input!EntersTo(j)' = Input!EntersTo(j) /\ Input!StopsTo(j)' = Input!StopsTo(j)
      /\ \A j : Input!LineAt(j)' = Input!LineAt(j)
      /\ Whole' <=> Whole
  BY DEF Input!EntersTo, Input!StopsTo, Input!LineAt, Whole
<1>3. Input!Enters' = Input!Enters
  BY DEF Input!Enters, Input!EntersTo
<1>4. Input!Spoilt' = Input!Spoilt /\ \A i : Input!Right(i)' <=> Input!Right(i)
  BY <1>2, <1>3 DEF Input!Spoilt, Input!Right, Input!Trimmed
<1>5. Read(n)'
  BY <1>1, <1>2, <1>4 DEF Read, TokensRead, StopsRead, Clean
<1>6. \A j \in DOMAIN typed' : typed'[j].line = Input!LineAt(j - 1)'
  BY <1>2 DEF InputInv
<1>7. \A i \in DOMAIN queue' : i > 1 => queue'[i] # Input!Dropped
  BY DEF InputInv
<1> QED BY <1>1, <1>5, <1>6, <1>7 DEF InputInv

(* One event is read ...                                                   *)
LEMMA EventRead == ASSUME InputInv, Input!NextEvent PROVE InputInv'
<1>1. PICK n \in 0 .. Len(typed) : AreRead(n, queue, typed) /\ Read(n)
  BY DEF InputInv
<1>2. PICK p : Reads(p, queue, typed) /\ p[0] = n
  BY <1>1 DEF AreRead
<1>3. /\ Input!InputTypeOK /\ queue \in Seq(Events) /\ typed \in Seq(Typed)
      /\ queue # <<>> /\ Len(queue) \in Nat /\ 1 \in 1 .. Len(queue)
      /\ 1 \in 0 .. Len(queue) /\ Len(typed) \in Nat
      /\ Head(queue) = queue[1] /\ queue[1] # Input!Dropped
      /\ Tail(queue) = SubSeq(queue, 1 + 1, Len(queue))
      /\ 1 \in DOMAIN queue
  BY DEF InputInv, Input!InputTypeOK, Events, Typed, Input!NextEvent
<1>4. /\ queue' = Tail(queue) /\ UNCHANGED <<reading, loop>>
      /\ UNCHANGED <<consumer, plugged, down, typed, overflows>>
      /\ IF queue[1].value # 0 THEN UNCHANGED <<id_token, published>>
         ELSE IF consumer = "token_provider" THEN Input!TokenKey(queue[1].key)
                                             ELSE Input!StopKey(queue[1].key)
  BY <1>3 DEF Input!NextEvent, Input!OthersUnchanged
<1>5. PICK q : q = queue'
  OBVIOUS
<1>6. /\ q \in Seq(Events) /\ Len(q) = Len(queue) - 1
      /\ \A i \in 1 .. Len(queue) - 1 : q[i] = queue[i + 1]
      /\ \A i \in DOMAIN q : q[i] # Input!Dropped
  BY <1>3, <1>4, <1>5, RestOfQueue
<1>7. AreRead(p[1], q, typed) /\ p[1] \in 0 .. Len(typed)
  BY <1>2, <1>3, <1>6, ReadsMore
<1>8. IF queue[1].value = 0 THEN p[1] = n + 1 /\ typed[p[1]].key = queue[1].key
                            ELSE p[1] = n
  BY <1>2, <1>3 DEF Reads
<1>9. Whole' /\ \A i \in DOMAIN queue' : i > 1 => queue'[i] # Input!Dropped
  BY <1>5, <1>6 DEF Whole
<1>10. Whole
  BY <1>3 DEF InputInv, Whole
<1>11. PICK m \in 0 .. Len(typed) : m = p[1]
  BY <1>7
<1>12. Read(m)' /\ id_token' \in Seq(Chars) /\ published' \in Seq(Seq(Input!Keys))
  <2>1. CASE queue[1].value = 0
    <3>1. /\ m = n + 1 /\ n + 1 <= Len(typed) /\ typed[n + 1].key = queue[1].key
          /\ UNCHANGED <<typed, overflows, consumer>>
      BY <1>3, <1>4, <1>8, <1>11, <2>1
    <3>2. CASE consumer = "token_provider"
      <4>1. TokensRead(n) /\ Input!TokenKey(typed[n + 1].key)
        BY <1>1, <1>4, <2>1, <3>1, <3>2 DEF Read
      <4>2. TokensRead(n + 1)' /\ id_token' \in Seq(Chars)
            /\ published' \in Seq(Seq(Input!Keys))
        BY <1>9, <3>1, <4>1, TokenNext
      <4> QED BY <3>1, <3>2, <4>2 DEF Read
    <3>3. CASE consumer # "token_provider"
      <4>1. StopsRead(n) /\ Input!StopKey(typed[n + 1].key)
        BY <1>1, <1>4, <2>1, <3>1, <3>3 DEF Read
      <4>2. StopsRead(n + 1)' /\ id_token' \in Seq(Chars)
            /\ published' \in Seq(Seq(Input!Keys))
        BY <1>9, <3>1, <4>1, StopNext
      <4> QED BY <3>1, <3>3, <4>2 DEF Read
    <3> QED BY <3>2, <3>3
  <2>2. CASE queue[1].value # 0
    <3>1. /\ m = n
          /\ UNCHANGED <<typed, overflows, consumer, id_token, published>>
      BY <1>4, <1>8, <1>11, <2>2
    <3>2. /\ \A j : /\ Input!EntersTo(j)' = Input!EntersTo(j)
                    /\ Input!StopsTo(j)' = Input!StopsTo(j)
                    /\ Input!LineAt(j)' = Input!LineAt(j)
          /\ Input!Enters' = Input!Enters
      BY <3>1 DEF Input!EntersTo, Input!StopsTo, Input!LineAt, Input!Enters
    <3>3. Input!Spoilt' = Input!Spoilt /\ \A i : Input!Right(i)' <=> Input!Right(i)
      BY <3>1, <3>2 DEF Input!Spoilt, Input!Right, Input!Trimmed
    <3>4. Read(n)'
      BY <1>1, <1>9, <1>10, <3>1, <3>2, <3>3
         DEF Read, TokensRead, StopsRead, Clean
    <3>5. id_token \in Seq(Chars) /\ published \in Seq(Seq(Input!Keys))
      BY <1>3 DEF Input!InputTypeOK
    <3> QED BY <3>1, <3>4, <3>5
  <2> QED BY <2>1, <2>2
<1>13. Input!InputTypeOK'
  <2>1. Len(q) <= QueueBound
    <3>1. Len(queue) <= QueueBound /\ QueueBound \in Nat
      BY <1>3, Constants DEF Input!InputTypeOK, Input!InputParameters
    <3> QED BY <1>3, <1>6, <3>1
  <2> QED BY <1>3, <1>4, <1>5, <1>6, <1>12, <2>1 DEF Input!InputTypeOK, Events
<1>14. \A j \in DOMAIN typed' : typed'[j].line = Input!LineAt(j - 1)'
  BY <1>4 DEF InputInv, Input!LineAt
<1> QED BY <1>4, <1>5, <1>7, <1>9, <1>11, <1>12, <1>13, <1>14 DEF InputInv

(* ... or, after an overflow, some are lost without being read.            *)
LEMMA EventsLost == ASSUME InputInv, Input!NextEventSync PROVE InputInv'
<1>1. PICK n \in 0 .. Len(typed) : AreRead(n, queue, typed) /\ Read(n)
  BY DEF InputInv
<1>2. PICK p : Reads(p, queue, typed) /\ p[0] = n
  BY <1>1 DEF AreRead
<1>3. /\ Input!InputTypeOK /\ queue \in Seq(Events) /\ typed \in Seq(Typed)
      /\ queue # <<>> /\ Len(queue) \in Nat /\ 1 \in DOMAIN queue
      /\ Len(typed) \in Nat /\ published \in Seq(Seq(Input!Keys))
      /\ Head(queue) = queue[1] /\ queue[1] = Input!Dropped
  BY DEF InputInv, Input!InputTypeOK, Events, Typed, Input!NextEventSync
<1>4. /\ UNCHANGED <<consumer, plugged, down, typed, overflows>>
      /\ UNCHANGED <<loop, id_token, published>> /\ reading' = FALSE
      /\ \E l \in 2 .. Len(queue) + 1 : queue' = SubSeq(queue, l, Len(queue))
  BY DEF Input!NextEventSync, Input!OthersUnchanged
<1>5. PICK d \in 1 .. Len(queue) : queue' = SubSeq(queue, d + 1, Len(queue))
  <2>1. PICK l \in 2 .. Len(queue) + 1 : queue' = SubSeq(queue, l, Len(queue))
    BY <1>4
  <2>2. l - 1 \in 1 .. Len(queue) /\ l = (l - 1) + 1
    BY <1>3
  <2> QED BY <2>1, <2>2
<1>6. PICK q : q = queue'
  OBVIOUS
<1>7. /\ q \in Seq(Events) /\ Len(q) = Len(queue) - d
      /\ \A i \in 1 .. Len(queue) - d : q[i] = queue[i + d]
      /\ \A i \in DOMAIN q : q[i] # Input!Dropped
  BY <1>5, <1>6, RestOfQueue
<1>8. AreRead(p[d], q, typed) /\ p[d] \in 0 .. Len(typed) /\ n <= p[d]
  <2>1. d \in 0 .. Len(queue)
    BY <1>3
  <2> QED BY <1>2, <1>3, <1>7, <2>1, ReadsMore
<1>9. PICK m \in 0 .. Len(typed) : m = p[d]
  BY <1>8
<1>10. /\ \A j : Input!EntersTo(j)' = Input!EntersTo(j)
                 /\ Input!StopsTo(j)' = Input!StopsTo(j)
       /\ Input!Enters' = Input!Enters
  BY <1>4 DEF Input!EntersTo, Input!StopsTo, Input!Enters
<1>11. Input!Spoilt' = Input!Spoilt
  BY <1>4, <1>10 DEF Input!Spoilt, Input!Trimmed
<1>12. ~Whole
  BY <1>3 DEF Whole
<1>13. Read(m)'
  <2>1. CASE consumer = "token_provider"
    <3>1. overflows # 0 /\ Cardinality(Input!Spoilt) < overflows
          /\ Cardinality(Input!Spoilt) <= overflows
      BY <1>1, <1>12, <2>1 DEF Read, TokensRead, Clean
    <3> QED BY <1>4, <1>11, <2>1, <3>1 DEF Read, TokensRead
  <2>2. CASE consumer # "token_provider"
    <3>1. overflows # 0 /\ Len(published) <= Cardinality(Input!StopsTo(n))
      BY <1>1, <1>12, <2>2 DEF Read, StopsRead
    <3>2. /\ Cardinality(Input!StopsTo(n)) <= Cardinality(Input!StopsTo(m))
          /\ Cardinality(Input!StopsTo(n)) \in Nat
          /\ Cardinality(Input!StopsTo(m)) \in Nat
      <4>1. n \in 0 .. m
        BY <1>3, <1>8, <1>9
      <4> QED BY <1>3, <4>1, Counted
    <3>3. Len(published) \in Nat
      BY <1>3
    <3>4. Len(published) <= Cardinality(Input!StopsTo(m))
      BY <3>1, <3>2, <3>3
    <3> QED BY <1>4, <1>10, <2>2, <3>1, <3>4 DEF Read, StopsRead
  <2> QED BY <2>1, <2>2
<1>14. Input!InputTypeOK'
  <2>1. Len(q) <= QueueBound
    <3>1. Len(queue) <= QueueBound /\ QueueBound \in Nat
      BY <1>3, Constants DEF Input!InputTypeOK, Input!InputParameters
    <3> QED BY <1>3, <1>7, <3>1
  <2> QED BY <1>3, <1>4, <1>6, <1>7, <2>1 DEF Input!InputTypeOK, Events
<1>15. \A j \in DOMAIN typed' : typed'[j].line = Input!LineAt(j - 1)'
  BY <1>4 DEF InputInv, Input!LineAt
<1>16. \A i \in DOMAIN queue' : i > 1 => queue'[i] # Input!Dropped
  BY <1>6, <1>7
<1> QED BY <1>4, <1>6, <1>8, <1>9, <1>13, <1>14, <1>15, <1>16 DEF InputInv

LEMMA InputNext == ASSUME InputInv, Input!InputNext PROVE InputInv'
<1>1. Input!InputTypeOK /\ typed \in Seq(Typed) /\ Len(typed) \in Nat
  BY DEF InputInv, Input!InputTypeOK, Typed
<1>2. ASSUME NEW k \in Input!Keys, Input!Press(k) PROVE InputInv'
  <2>1. /\ Input!Queues(Input!Event(k, 1)) /\ Input!DeviceUnchanged
        /\ down' \subseteq Input!Keys /\ typed' = typed
    BY <1>2 DEF Input!Press
  <2>2. 1 \in {0, 1, 2} /\ 1 # 0
    OBVIOUS
  <2> QED BY <2>1, <2>2, QueueNext
<1>3. ASSUME NEW k \in Input!Keys, Input!Repeat(k) PROVE InputInv'
  <2>1. /\ Input!Queues(Input!Event(k, 2)) /\ Input!DeviceUnchanged
        /\ down' \subseteq Input!Keys /\ typed' = typed
    BY <1>1, <1>3 DEF Input!Repeat, Input!InputTypeOK
  <2>2. 2 \in {0, 1, 2} /\ 2 # 0
    OBVIOUS
  <2> QED BY <2>1, <2>2, QueueNext
<1>4. ASSUME NEW k \in Input!Keys, Input!Release(k) PROVE InputInv'
  <2>1. /\ Input!Queues(Input!Event(k, 0)) /\ Input!DeviceUnchanged
        /\ down' \subseteq Input!Keys
        /\ typed' = Append(typed, [key |-> k, line |-> Input!LineAt(Len(typed))])
    BY <1>4 DEF Input!Release
  <2> QED BY <2>1, QueueNext
<1>5. CASE \/ Input!Unplug \/ Input!Poll \/ Input!Spin \/ Input!Ended
           \/ Input!NextEventAgain \/ Input!NextEventFails
  <2>1. /\ UNCHANGED <<consumer, queue, id_token, published, typed, overflows, down>>
        /\ plugged' \in {plugged, FALSE} /\ reading' \in {reading, TRUE, FALSE}
        /\ loop' \in {loop, "ended"}
    BY <1>5 DEF Input!Unplug, Input!Poll, Input!Spin, Input!Ended, Input!inputVars,
         Input!NextEventAgain, Input!NextEventFails, Input!OthersUnchanged
  <2>2. Input!InputTypeOK'
    BY <1>1, <2>1 DEF Input!InputTypeOK
  <2> QED BY <2>1, <2>2, NothingRead
<1>6. CASE Input!NextEvent
  BY <1>6, EventRead
<1>7. CASE Input!NextEventSync
  BY <1>7, EventsLost
<1> QED BY <1>2, <1>3, <1>4, <1>5, <1>6, <1>7
        DEF Input!InputNext, Input!Reader, Input!Device

(* When the queue is empty everything has been read.                       *)
LEMMA InputSafe == InputInv => Input!InputTypeOK /\ Input!InputHandled
<1> SUFFICES ASSUME InputInv PROVE Input!InputHandled
  BY DEF InputInv
<1>1. PICK n \in 0 .. Len(typed) : AreRead(n, queue, typed) /\ Read(n)
  BY DEF InputInv
<1>2. /\ typed \in Seq(Typed) /\ Len(typed) \in Nat /\ overflows \in Nat
      /\ published \in Seq(Seq(Input!Keys)) /\ Len(published) \in Nat
  BY Constants DEF InputInv, Input!InputTypeOK, Input!InputParameters, Typed
<1>3. queue = <<>> => n = Len(typed)
  BY <1>1 DEF AreRead, Reads
<1>4. CASE consumer = "token_provider"
  <2>1. TokensRead(n)
    BY <1>1, <1>4 DEF Read
  <2>2. Cardinality(Input!Spoilt) <= overflows
    BY <2>1 DEF TokensRead
  <2>3. overflows = 0 => \A i \in DOMAIN published : Input!Right(i)
    BY <2>1 DEF TokensRead
  <2>4. overflows = 0 /\ queue = <<>> =>
           /\ Len(published) = Cardinality(Input!Enters)
           /\ id_token = Input!LineAt(Len(typed))
    BY <1>3, <2>1 DEF TokensRead, Clean, Input!Enters
  <2> QED BY <1>4, <2>2, <2>3, <2>4, SameCardinality DEF Input!InputHandled
<1>5. CASE consumer # "token_provider"
  <2>1. StopsRead(n)
    BY <1>1, <1>5 DEF Read
  <2>2. /\ Cardinality(Input!StopsTo(n)) <= Cardinality(Input!Stops)
        /\ Cardinality(Input!StopsTo(n)) \in Nat /\ Cardinality(Input!Stops) \in Nat
    <3>1. Len(typed) \in 0 .. Len(typed)
      BY <1>2
    <3> QED BY <1>2, <3>1, Counted DEF Input!Stops
  <2>3. Len(published) <= Cardinality(Input!Stops)
    BY <1>2, <2>1, <2>2 DEF StopsRead
  <2>4. overflows = 0 /\ queue = <<>> => Len(published) = Cardinality(Input!Stops)
    BY <1>3, <2>1 DEF StopsRead, Input!Stops
  <2> QED BY <1>5, <2>3, <2>4, SameCardinality DEF Input!InputHandled
<1> QED BY <1>4, <1>5

-----------------------------------------------------------------------------
(* SimpleSwitch3ph1phAPI.                                                  *)

LEMMA SwitchInit == Switch!SwitchInit => Switch!SwitchTypeOK
<1>1. 0 \in 0 .. MaxRefusals
  BY Constants
<1>2. Switch!Nothing \in [limits_root_side : Limits \cup {InitialLimits},
                         uuid : Uuids \cup {NoUuid}]
  BY DEF Switch!Nothing, Switch!Enforcement
<1> QED BY <1>1, <1>2 DEF Switch!SwitchInit, Switch!SwitchTypeOK

(* A limit that may not have reached the leaf is one it could have.        *)
LEMMA SwitchNext ==
    ASSUME Switch!SwitchTypeOK, Switch!SwitchNext
    PROVE  Switch!SwitchTypeOK'
<1> DEFINE E == [limits_root_side : Limits \cup {InitialLimits},
                 uuid : Uuids \cup {NoUuid}]
<1>1. limits \in E /\ enforced \in E /\ refusals \in 0 .. MaxRefusals
      /\ wanted \in Limits \cup {InitialLimits}
  BY DEF Switch!SwitchTypeOK
<1>2. limits' \in E /\ wanted' \in Limits \cup {InitialLimits}
  BY <1>1 DEF Switch!SwitchNext, Switch!EnergyFlowRequest, Switch!SetLimits,
              Switch!Refresh
<1> HIDE DEF E
<1>3. \/ enforced' \in {enforced, limits', limits} /\ refusals' = refusals
      \/ /\ enforced' \in {enforced, limits', limits}
         /\ refusals < MaxRefusals /\ refusals' = refusals + 1
  BY DEF Switch!SwitchNext, Switch!EnergyFlowRequest, Switch!SetLimits,
         Switch!Refresh, Switch!enforce_limits, Switch!Refused
<1>4. enforced' \in E /\ refusals' \in 0 .. MaxRefusals
  BY <1>1, <1>2, <1>3, Constants
<1>5. initial_limits_pushed' \in {initial_limits_pushed, TRUE}
      /\ ended' \in {ended, TRUE}
  BY DEF Switch!SwitchNext, Switch!EnergyFlowRequest, Switch!SetLimits,
         Switch!Refresh
<1> QED BY <1>2, <1>4, <1>5 DEF Switch!SwitchTypeOK, E

-----------------------------------------------------------------------------
(* The modules together: where one of them runs the others stay.           *)

IInv == SlacInv /\ Switch!SwitchTypeOK /\ InputInv

LEMMA SlacStays == ASSUME SlacInv, UNCHANGED slacVars PROVE SlacInv'
  BY DEF slacVars, SlacInv, Slac!SlacTypeOK, CountedDown, OneAtATime,
         Slac!Sleeping, ReadyAlone, HandlerAlone, Agreed

LEMMA SwitchStays ==
    ASSUME Switch!SwitchTypeOK, UNCHANGED switchVars PROVE Switch!SwitchTypeOK'
  BY DEF switchVars, Switch!SwitchTypeOK

LEMMA InputStays == ASSUME InputInv, UNCHANGED inputVars PROVE InputInv'
<1>1. Input!InputTypeOK'
  BY DEF InputInv, inputVars, Input!InputTypeOK
<1> QED BY <1>1, NothingRead DEF inputVars

LEMMA InvInit == Init => IInv
  BY SlacInit, SwitchInit, InputInit DEF Init, IInv

LEMMA InvNext == IInv /\ [Next]_vars => IInv'
<1> SUFFICES ASSUME IInv, [Next]_vars PROVE IInv'
  OBVIOUS
<1>1. CASE SlacRuns
  <2>1. SlacInv'
    <3>1. Slac!ReadyStep \/ Slac!HandlerStep
      BY <1>1 DEF SlacRuns, Slac!SlacNext
    <3> QED BY <3>1, ReadyNext, HandlerNext DEF IInv
  <2> QED BY <1>1, <2>1, SwitchStays, InputStays DEF SlacRuns, IInv
<1>2. CASE SwitchRuns
  BY <1>2, SlacStays, SwitchNext, InputStays DEF SwitchRuns, IInv
<1>3. CASE InputRuns
  BY <1>3, SlacStays, SwitchStays, InputNext DEF InputRuns, IInv
<1>4. CASE Over \/ UNCHANGED vars
  BY <1>4, SlacStays, SwitchStays, InputStays DEF Over, vars, IInv
<1> QED BY <1>1, <1>2, <1>3, <1>4 DEF Next

LEMMA InvSafe == IInv => TypeOK /\ LinkAgrees /\ InputHandled
  BY SlacSafe, InputSafe DEF IInv, TypeOK, LinkAgrees, InputHandled

LEMMA Invariance == Spec => []IInv
<1> QED BY InvInit, InvNext, PTL DEF Spec

-----------------------------------------------------------------------------
(* Every variable has its type: a thread of DummyEvSlac is at one of its   *)
(* steps, the countdown of ready() does not pass zero, and no text of the  *)
(* input loop comes to hold anything but keys.                             *)
THEOREM TypeCorrect == Spec => []TypeOK
<1>1. IInv => TypeOK
  BY InvSafe
<1> QED BY <1>1, Invariance, PTL

(* Whenever neither a handler of DummyEvSlac nor ready() is at work the    *)
(* state published is the state, UNMATCHED means that no link is published *)
(* and MATCHED that one is, unless the last of the two to begin found the  *)
(* other at work; and MATCHED comes after the whole countdown of ready(),  *)
(* but for a matching after a reset during the one before.                 *)
THEOREM LinkIsTrue == Spec => []LinkAgrees
<1>1. IInv => LinkAgrees
  BY InvSafe
<1> QED BY <1>1, Invariance, PTL

(* However many events the loop reads at once, and for every length of the *)
(* queue of the kernel: each token and each stop typed is reported once,   *)
(* in order and as typed, and an overflow of the queue spoils at most one. *)
THEOREM InputIsHandled == Spec => []InputHandled
<1>1. IInv => InputHandled
  BY InvSafe
<1> QED BY <1>1, Invariance, PTL

=============================================================================
