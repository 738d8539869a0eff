--------------------------- MODULE EnableCommands ---------------------------
(***************************************************************************)
(* What handle_enable of the three modules with a board support has left   *)
(* to do after its first request was answered, and what each of its steps  *)
(* is followed by: lemmas for the proofs about those modules, in which a   *)
(* list of steps stands for the rest of a handler.                         *)
(***************************************************************************)
EXTENDS Naturals, Sequences, TLAPS, SequenceTheorems

(* The step a list begins with.                                            *)
First(p) == IF p = <<>> THEN "none" ELSE Head(p)

(* Once the driver has been told to, a disable goes through all of these.  *)
Forgetting == {"forget_cp_state", "forget_ampacity", "reset_cp_state"}
Late       == Forgetting \cup {"reset_ampacity", "disable_module"}

EnableSteps == Late \cup {"enable_driver", "enable_module", "disable_driver"}

(* What may be left.                                                       *)
Rests ==
    {<<>>, <<"enable_driver", "enable_module">>, <<"enable_module">>,
     <<"disable_driver", "reset_cp_state", "reset_ampacity", "disable_module">>,
     <<"forget_cp_state", "forget_ampacity", "reset_cp_state",
       "reset_ampacity", "disable_module">>,
     <<"forget_ampacity", "reset_cp_state", "reset_ampacity", "disable_module">>,
     <<"reset_cp_state", "reset_ampacity", "disable_module">>,
     <<"reset_ampacity", "disable_module">>, <<"disable_module">>}

(* The first element of a list and the others.                             *)
LEMMA TupleSteps ==
    /\ \A a : /\ <<a>> # <<>> /\ Head(<<a>>) = a /\ Tail(<<a>>) = <<>>
    /\ \A a, b : /\ <<a, b>> # <<>> /\ Head(<<a, b>>) = a
                 /\ Tail(<<a, b>>) = <<b>>
    /\ \A a, b, c : /\ <<a, b, c>> # <<>> /\ Head(<<a, b, c>>) = a
                    /\ Tail(<<a, b, c>>) = <<b, c>>
    /\ \A a, b, c, d : /\ <<a, b, c, d>> # <<>> /\ Head(<<a, b, c, d>>) = a
                       /\ Tail(<<a, b, c, d>>) = <<b, c, d>>
    /\ \A a, b, c, d, e :
          /\ <<a, b, c, d, e>> # <<>> /\ Head(<<a, b, c, d, e>>) = a
          /\ Tail(<<a, b, c, d, e>>) = <<b, c, d, e>>
  OBVIOUS

(* A list of steps is a sequence of steps.                                 *)
LEMMA TupleTypes ==
    ASSUME NEW S
    PROVE  /\ <<>> \in Seq(S)
           /\ \A a \in S : <<a>> \in Seq(S)
           /\ \A a, b \in S : <<a, b>> \in Seq(S)
           /\ \A a, b, c \in S : <<a, b, c>> \in Seq(S)
           /\ \A a, b, c, d \in S : <<a, b, c, d>> \in Seq(S)
           /\ \A a, b, c, d, e \in S : <<a, b, c, d, e>> \in Seq(S)
  OBVIOUS

(* Two steps put in front of three.                                        *)
LEMMA TwoAndThree ==
    ASSUME NEW x, NEW y, NEW a, NEW b, NEW c
    PROVE  <<x, y>> \o <<a, b, c>> = <<x, y, a, b, c>>
<1> DEFINE S == {x, y, a, b, c}
<1>1. /\ <<x, y>> \in Seq(S) /\ <<a, b, c>> \in Seq(S)
      /\ <<x, y, a, b, c>> \in Seq(S)
  OBVIOUS
<1>2. Len(<<x, y>>) = 2 /\ Len(<<a, b, c>>) = 3 /\ Len(<<x, y, a, b, c>>) = 5
  OBVIOUS
<1>3. \A i \in 1 .. 5 : (<<x, y>> \o <<a, b, c>>)[i] = <<x, y, a, b, c>>[i]
  OBVIOUS
<1>4. /\ <<x, y>> \o <<a, b, c>> \in Seq(S)
      /\ Len(<<x, y>> \o <<a, b, c>>) = 5
  BY <1>1, <1>2, ConcatProperties
<1> HIDE DEF S
<1> QED BY <1>1, <1>2, <1>3, <1>4, SeqEqual

(* What is left is a sequence of steps.                                    *)
LEMMA RestsType ==
    ASSUME NEW S, EnableSteps \subseteq S
    PROVE  Rests \subseteq Seq(S)
<1>1. {"enable_driver", "enable_module", "disable_driver", "forget_cp_state",
       "forget_ampacity", "reset_cp_state", "reset_ampacity",
       "disable_module"} \subseteq S
  BY DEF EnableSteps, Late, Forgetting
<1>2. <<>> \in Seq(S)
  BY TupleTypes
<1>3. <<"enable_driver", "enable_module">> \in Seq(S)
  BY <1>1, TupleTypes
<1>4. <<"enable_module">> \in Seq(S)
  BY <1>1, TupleTypes
<1>5. <<"disable_driver", "reset_cp_state", "reset_ampacity",
        "disable_module">> \in Seq(S)
  BY <1>1, TupleTypes
<1>6. <<"forget_cp_state", "forget_ampacity", "reset_cp_state",
        "reset_ampacity", "disable_module">> \in Seq(S)
  BY <1>1, TupleTypes
<1>7. <<"forget_ampacity", "reset_cp_state", "reset_ampacity",
        "disable_module">> \in Seq(S)
  BY <1>1, TupleTypes
<1>8. <<"reset_cp_state", "reset_ampacity", "disable_module">> \in Seq(S)
  BY <1>1, TupleTypes
<1>9. <<"reset_ampacity", "disable_module">> \in Seq(S)
  BY <1>1, TupleTypes
<1>10. <<"disable_module">> \in Seq(S)
  BY <1>1, TupleTypes
<1> QED BY <1>2, <1>3, <1>4, <1>5, <1>6, <1>7, <1>8, <1>9, <1>10 DEF Rests

(* What a step is followed by.                                             *)
LEMMA RestFollows ==
    ASSUME NEW p \in Rests, p # <<>>
    PROVE  /\ Tail(p) \in Rests
           /\ First(p) \in EnableSteps
           /\ First(p) = "enable_driver" => First(Tail(p)) = "enable_module"
           /\ First(p) = "enable_module" => First(Tail(p)) = "none"
           /\ First(p) = "disable_driver" =>
                 /\ First(Tail(p)) = "reset_cp_state"
                 /\ Tail(p) = <<"reset_cp_state", "reset_ampacity", "disable_module">>
           /\ First(p) = "forget_cp_state" => First(Tail(p)) = "forget_ampacity"
           /\ First(p) = "forget_ampacity" => First(Tail(p)) = "reset_cp_state"
           /\ First(p) = "reset_cp_state" => First(Tail(p)) = "reset_ampacity"
           /\ First(p) = "reset_ampacity" => First(Tail(p)) = "disable_module"
           /\ First(p) = "disable_module" => First(Tail(p)) = "none"
<1> USE DEF EnableSteps, Late, Forgetting
<1>1. CASE p = <<"enable_driver", "enable_module">>
  <2>1. First(p) = "enable_driver" /\ Tail(p) = <<"enable_module">>
    BY <1>1, TupleSteps DEF First
  <2> QED BY <1>1, <2>1, TupleSteps DEF First, Rests
<1>2. CASE p = <<"enable_module">>
  <2>1. First(p) = "enable_module" /\ Tail(p) = <<>>
    BY <1>2, TupleSteps DEF First
  <2> QED BY <1>2, <2>1, TupleSteps DEF First, Rests
<1>3. CASE p = <<"disable_driver", "reset_cp_state", "reset_ampacity",
                 "disable_module">>
  <2>1. First(p) = "disable_driver" /\ Tail(p) = <<"reset_cp_state",
                                                   "reset_ampacity",
                                                   "disable_module">>
    BY <1>3, TupleSteps DEF First
  <2> QED BY <1>3, <2>1, TupleSteps DEF First, Rests
<1>4. CASE p = <<"forget_cp_state", "forget_ampacity", "reset_cp_state",
                 "reset_ampacity", "disable_module">>
  <2>1. First(p) = "forget_cp_state" /\ Tail(p) = <<"forget_ampacity",
                                                    "reset_cp_state",
                                                    "reset_ampacity",
                                                    "disable_module">>
    BY <1>4, TupleSteps DEF First
  <2> QED BY <1>4, <2>1, TupleSteps DEF First, Rests
<1>5. CASE p = <<"forget_ampacity", "reset_cp_state", "reset_ampacity",
                 "disable_module">>
  <2>1. First(p) = "forget_ampacity" /\ Tail(p) = <<"reset_cp_state",
                                                    "reset_ampacity",
                                                    "disable_module">>
    BY <1>5, TupleSteps DEF First
  <2> QED BY <1>5, <2>1, TupleSteps DEF First, Rests
<1>6. CASE p = <<"reset_cp_state", "reset_ampacity", "disable_module">>
  <2>1. First(p) = "reset_cp_state" /\ Tail(p) = <<"reset_ampacity",
                                                   "disable_module">>
    BY <1>6, TupleSteps DEF First
  <2> QED BY <1>6, <2>1, TupleSteps DEF First, Rests
<1>7. CASE p = <<"reset_ampacity", "disable_module">>
  <2>1. First(p) = "reset_ampacity" /\ Tail(p) = <<"disable_module">>
    BY <1>7, TupleSteps DEF First
  <2> QED BY <1>7, <2>1, TupleSteps DEF First, Rests
<1>8. CASE p = <<"disable_module">>
  <2>1. First(p) = "disable_module" /\ Tail(p) = <<>>
    BY <1>8, TupleSteps DEF First
  <2> QED BY <1>8, <2>1, TupleSteps DEF First, Rests
<1> QED BY <1>1, <1>2, <1>3, <1>4, <1>5, <1>6, <1>7, <1>8 DEF Rests

(* A driver that was enabled forgets before the module does.               *)
LEMMA ForgetsFirst ==
    ASSUME NEW p \in Rests, First(p) = "disable_driver", NEW q,
           q = <<"forget_cp_state", "forget_ampacity">> \o Tail(p)
    PROVE  q \in Rests /\ q # <<>> /\ First(q) = "forget_cp_state"
<1>1. Tail(p) = <<"reset_cp_state", "reset_ampacity", "disable_module">>
  BY RestFollows DEF First
<1>2. q = <<"forget_cp_state", "forget_ampacity", "reset_cp_state",
            "reset_ampacity", "disable_module">>
  <2>1. q = <<"forget_cp_state", "forget_ampacity">>
            \o <<"reset_cp_state", "reset_ampacity", "disable_module">>
    BY <1>1
  <2>2. \A x, y, a, b, c : <<x, y>> \o <<a, b, c>> = <<x, y, a, b, c>>
    BY TwoAndThree
  <2> QED BY <2>1, <2>2
<1>3. Head(q) = "forget_cp_state" /\ q # <<>>
  BY <1>2
<1> QED BY <1>2, <1>3 DEF First, Rests

-----------------------------------------------------------------------------
(* The handlers of the interface ev_board_support (EVAchargeSEEV and       *)
(* MCSTesterEV): they begin with set_cp_state, and end early if it throws. *)

EvSteps == EnableSteps \cup {"set_requested", "set_A"}

EvPrograms ==
    Rests \cup
    {<<"set_requested">>, <<"set_requested", "enable_driver", "enable_module">>,
     <<"set_A", "disable_driver", "reset_cp_state", "reset_ampacity",
       "disable_module">>}

(* What is left is a sequence of steps, and empty if there is no first.    *)
LEMMA EvProgramsType ==
    ASSUME NEW p \in EvPrograms
    PROVE  /\ p \in Seq(EvSteps)
           /\ p = <<>> <=> First(p) = "none"
           /\ p = <<"set_requested">> => First(p) = "set_requested"
<1>1. {"set_requested", "set_A", "enable_driver", "enable_module",
       "disable_driver", "reset_cp_state", "reset_ampacity",
       "disable_module"} \subseteq EvSteps
  BY DEF EvSteps, EnableSteps, Late, Forgetting
<1>2. Rests \subseteq Seq(EvSteps)
  BY RestsType DEF EvSteps
<1>3. <<"set_requested">> \in Seq(EvSteps)
  BY <1>1, TupleTypes
<1>4. <<"set_requested", "enable_driver", "enable_module">> \in Seq(EvSteps)
  BY <1>1, TupleTypes
<1>5. <<"set_A", "disable_driver", "reset_cp_state", "reset_ampacity",
        "disable_module">> \in Seq(EvSteps)
  BY <1>1, TupleTypes
<1>6. p \in Seq(EvSteps)
  BY <1>2, <1>3, <1>4, <1>5 DEF EvPrograms
<1>7. ASSUME p # <<>> PROVE First(p) # "none"
  <2>1. Head(p) \in EvSteps
    BY <1>6, <1>7, HeadTailProperties
  <2> QED BY <1>7, <2>1 DEF First, EvSteps, EnableSteps, Late, Forgetting
<1> QED BY <1>6, <1>7, TupleSteps DEF First

(* What a step is followed by.                                             *)
LEMMA EvFollows ==
    ASSUME NEW p \in EvPrograms, p # <<>>
    PROVE  /\ Tail(p) \in EvPrograms
           /\ First(p) = "set_requested" =>
                 \/ p = <<"set_requested">> /\ First(Tail(p)) = "none"
                 \/ First(Tail(p)) = "enable_driver"
           /\ First(p) = "set_A" => First(Tail(p)) = "disable_driver"
           /\ First(p) = "enable_driver" => First(Tail(p)) = "enable_module"
           /\ First(p) = "enable_module" => First(Tail(p)) = "none"
           /\ First(p) = "disable_driver" =>
                 p \in Rests /\ First(Tail(p)) = "reset_cp_state"
           /\ First(p) = "forget_cp_state" => First(Tail(p)) = "forget_ampacity"
           /\ First(p) = "forget_ampacity" => First(Tail(p)) = "reset_cp_state"
           /\ First(p) = "reset_cp_state" => First(Tail(p)) = "reset_ampacity"
           /\ First(p) = "reset_ampacity" => First(Tail(p)) = "disable_module"
           /\ First(p) = "disable_module" => First(Tail(p)) = "none"
<1>1. CASE p \in Rests
  <2>1. Tail(p) \in Rests /\ First(p) \in EnableSteps
    BY <1>1, RestFollows
  <2> QED BY <1>1, <2>1, RestFollows DEF EvPrograms, EnableSteps, Late, Forgetting
<1>2. CASE p = <<"set_requested">>
  <2>1. First(p) = "set_requested" /\ Tail(p) = <<>>
    BY <1>2, TupleSteps DEF First
  <2> QED BY <1>2, <2>1, TupleSteps DEF First, EvPrograms, Rests
<1>3. CASE p = <<"set_requested", "enable_driver", "enable_module">>
  <2>1. First(p) = "set_requested" /\ Tail(p) = <<"enable_driver",
                                                  "enable_module">>
    BY <1>3, TupleSteps DEF First
  <2> QED BY <1>3, <2>1, TupleSteps DEF First, EvPrograms, Rests
<1>4. CASE p = <<"set_A", "disable_driver", "reset_cp_state",
                 "reset_ampacity", "disable_module">>
  <2>1. First(p) = "set_A" /\ Tail(p) = <<"disable_driver", "reset_cp_state",
                                          "reset_ampacity",
                                          "disable_module">>
    BY <1>4, TupleSteps DEF First
  <2> QED BY <1>4, <2>1, TupleSteps DEF First, EvPrograms, Rests
<1> QED BY <1>1, <1>2, <1>3, <1>4 DEF EvPrograms

=============================================================================
