---------------------------- MODULE WindowCloud ----------------------------
(***************************************************************************)
(* The cloud by which is_split_window() decides whether a string of bytes, *)
(* a window, fixes where the token that covers its last byte began: the    *)
(* hypotheses <<state, origin>> about a scan that crosses the window.      *)
(***************************************************************************)
EXTENDS Dfa

CONSTANT BeforeWindow   \* the origin of a token that began before the window

ASSUME WindowAssumption == BeforeWindow \notin Nat

Origins == Nat \cup {BeforeWindow}

(* Hypotheses that only the initial state makes.                           *)
InitialCloudFromStart(D) == {<<D.init, BeforeWindow>>}

InitialCloud(D) == D.live \X {BeforeWindow}

LiveStep(D, s, byte) == {D.next[s][byte]} \cap D.live

(* A token begins where the initial state is read, if nothing re-enters it.*)
Begins(D, s) == s = D.init /\ ~ D.init_reentrant

(* A hypothesis that has just ended a token taken not to read on.          *)
SteppedUnlessAccepting(D, h, byte, at) ==
  IF Accepting(D, h[1]) THEN {}
  ELSE LiveStep(D, h[1], byte) \X {IF Begins(D, h[1]) THEN at ELSE h[2]}

(* A hypothesis that cannot consume the byte is dropped.                   *)
Stepped(D, h, byte, at) ==
  LiveStep(D, h[1], byte) \X {IF Begins(D, h[1]) THEN at ELSE h[2]}

(* A token may begin wherever some history has just ended one.             *)
Fresh(D, h, byte, at) ==
  IF Accepting(D, h[1]) THEN LiveStep(D, D.init, byte) \X {at} ELSE {}

Advance(D, cloud, byte, at) ==
  UNION { Stepped(D, h, byte, at) \cup Fresh(D, h, byte, at) : h \in cloud }

(* The origin every hypothesis agrees on, BeforeWindow when they do not or *)
(* none is left: the window is refused.                                    *)
Verdict(cloud) ==
  LET origins == { h[2] : h \in cloud }
  IN IF \E o \in origins : origins = {o} THEN CHOOSE o \in origins : TRUE ELSE BeforeWindow

(* The walk as a whole.                                                    *)
SplitOrigin(D, window) ==
  LET cloudAt[n \in 0 .. Len(window)] ==
        IF n = 0 THEN InitialCloud(D)
        ELSE Advance(D, cloudAt[n - 1], window[n], n - 1)
  IN Verdict(cloudAt[Len(window)])
=============================================================================
