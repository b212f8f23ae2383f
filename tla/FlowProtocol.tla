----------------------------- MODULE FlowProtocol -----------------------------
(***************************************************************************)
(* What relaying is for: every handshake, closing or packet transfer goes  *)
(* through its steps in order, each step on the chain opposite to the      *)
(* step before it, and no step happens that its predecessor did not call   *)
(* for.  Which task carries the steps across, and when, is left open.      *)
(***************************************************************************)
CONSTANTS ChainA, ChainB, Flow, Origin, Starts

VARIABLE done   \* the steps done: <<chain, flow, kind of event>>

Chain == {ChainA, ChainB}
Other(c) == IF c = ChainA THEN ChainB ELSE ChainA

(* The step that follows a step, by kind of event.                         *)
Follows ==
    { <<"OpenInitConnection", "OpenTryConnection">>,
      <<"OpenTryConnection", "OpenAckConnection">>,
      <<"OpenAckConnection", "OpenConfirmConnection">>,
      <<"OpenInitChannel", "OpenTryChannel">>,
      <<"OpenTryChannel", "OpenAckChannel">>,
      <<"OpenAckChannel", "OpenConfirmChannel">>,
      <<"CloseInitChannel", "CloseConfirmChannel">>,
      <<"SendPacket", "WriteAcknowledgement">>,
      <<"WriteAcknowledgement", "AcknowledgePacket">> }

CalledFor(c, f, k) ==
    \/ c = Origin[f] /\ k = Starts[f]
    \/ \E p \in Follows : p[2] = k /\ <<Other(c), f, p[1]>> \in done

Init == done = {}

(* A block of a chain does some steps at once, each already called for.    *)
Advance ==
    /\ done \subseteq done'
    /\ \A s \in done' \ done :
          /\ s = <<s[1], s[2], s[3]>> /\ s[1] \in Chain /\ s[2] \in Flow
          /\ CalledFor(s[1], s[2], s[3])

Spec == Init /\ [][Advance]_done
===============================================================================
