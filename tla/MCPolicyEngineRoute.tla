-------------------------- MODULE MCPolicyEngineRoute --------------------------
(***************************************************************************)
(* Small instances of PolicyEngineRoute for TLC.                           *)
(***************************************************************************)
EXTENDS PolicyEngineRoute, TLC

\* An UpdateService with a short name, and one whose name has 37 characters, which makes a
\* label of 64 beside a namespace of 20: one too many.
ShortOld == "app" :> "app-policy-engine-route" @@ "n37" :> "n37-policy-engine-route"
ShortNew == "app" :> "app-route" @@ "n37" :> "n37-route"

\* One whose name is a Route of another, as the names once were.
TwoOld == "app" :> "app-policy-engine-route" @@
          "app-policy-engine" :> "app-policy-engine-policy-engine-route"
TwoNew == "app" :> "app-route" @@ "app-policy-engine" :> "app-policy-engine-route"

Lengths ==
  "app-policy-engine-route" :> 23 @@ "app-route" :> 9 @@
  "app-policy-engine-policy-engine-route" :> 37 @@
  "n37-policy-engine-route" :> 57 @@ "n37-route" :> 43

Length == [n \in Names |-> Lengths[n]]

=============================================================================
