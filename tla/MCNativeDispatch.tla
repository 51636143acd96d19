-------------------------- MODULE MCNativeDispatch -------------------------
EXTENDS NativeDispatch

\* Two evaluators, the buffer one built a tick after the legacy one.
TwoEvaluators == {"legacy", "buffer"}
TheBuffered   == {"buffer"}
Built         == [e \in TwoEvaluators |-> IF e = "legacy" THEN 0 ELSE 1]

=============================================================================
