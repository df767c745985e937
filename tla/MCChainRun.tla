---------------------------- MODULE MCChainRun ----------------------------
(* Instances of ChainRun for TLC: a scope of two chains, whose steps       *)
(* contend for two pools of one slot each.                                 *)
EXTENDS ChainRun, TLC

Piped == "piped"
Tried == "tried"

TwoChains == (Piped :> <<"a", "b", "d">>) @@ (Tried :> <<"e">>)
TwoPools == ("a" :> {"P"}) @@ ("b" :> {"P"}) @@ ("d" :> {"Q"}) @@ ("e" :> {"Q"})
OneEach == ("P" :> 1) @@ ("Q" :> 1)
SomeFail == ("a" :> "never") @@ ("b" :> "Input") @@ ("d" :> "User") @@ ("e" :> "Internal")
OnlyTried == {Tried}
OneRetry == [c \in Chains |-> IF c = Tried THEN 1 ELSE 0]

\* A single pipeline of two steps, for the caps that end early.
OneChain == Piped :> <<"a", "b">>
NoNeeds == [c \in Chains |-> {}]
OnePool == ("a" :> {"P"}) @@ ("b" :> {"Q"})
NoneFail == [s \in Steps |-> "never"]
NoRetry == [c \in Chains |-> 0]
=============================================================================
