------------------------------- MODULE MCPeers -------------------------------
(***************************************************************************)
(* A viewed peer of VDONinjaPeerManager, model-checked: its control        *)
(* channel, its track slots and its identity.  A behaviour is one of a     *)
(* single component, the subject; the others stay in an initial state.     *)
(***************************************************************************)
EXTENDS DataChannels, TrackSlots, RemotePeer

VARIABLE subject

\* Channels that replace each other, with messages or a route; and one channel
\* with two messages or a route.
ChannelBudget(i, m, r) == [incoming |-> i, messages |-> m, routes |-> r]
MCChannelBudgets ==
  {ChannelBudget(2, 1, 0), ChannelBudget(2, 0, 1), ChannelBudget(1, 2, 0),
   ChannelBudget(1, 1, 1)}

\* The offers, by their media sections, the tracks that RTC hands in, those
\* that end, and the times it connects.
SlotBudget(o, t, e, c) == [offers |-> o, tracks |-> t, ends |-> e, connects |-> c]
Both == <<"video", "alpha">>
MCSlotBudgets ==
  {SlotBudget(<<Both, <<"video">>>>, 0, 0, 0),
   SlotBudget(<<<<"video">>>>, 0, 1, 1), SlotBudget(<<<<"video">>>>, 1, 0, 0),
   SlotBudget(<<<<"alpha", "audio">>>>, 0, 1, 0),
   SlotBudget(<<>>, 2, 1, 0), SlotBudget(<<>>, 1, 2, 0), SlotBudget(<<>>, 1, 1, 1)}

\* Clean-ups against offers of other sessions, local candidates against the
\* end of their peer, and remote candidates before and after the offer.
PeerBudget(k, s, l, f, c, e, o, x) ==
  [kinds |-> k, socket |-> s, late |-> l, failures |-> f, locals |-> c,
   ends |-> e, owner |-> o, losses |-> x]
MCPeerBudgets ==
  {PeerBudget({"offer", "cleanup"}, 3, 1, 0, 0, 0, 0, 0),
   PeerBudget({"offer", "cleanup"}, 2, 1, 0, 0, 1, 0, 0),
   PeerBudget({"offer"}, 1, 1, 0, 2, 1, 0, 0),
   PeerBudget({"offer", "candidate"}, 2, 1, 0, 0, 0, 1, 1),
   PeerBudget({"offer"}, 1, 1, 1, 0, 0, 1, 0)}

channelIdle ==
  ChannelInit /\ holder.state = "new" /\ spare = ChannelBudget(2, 1, 0)
slotIdle == SlotInit /\ allowance = SlotBudget(<<>>, 1, 2, 0)
remoteIdle == RemoteInit /\ remaining.failures = 1

Init ==
  \/ subject = "channels" /\ ChannelInit /\ slotIdle /\ remoteIdle
  \/ subject = "slots"    /\ channelIdle /\ SlotInit /\ remoteIdle
  \/ subject = "peers"    /\ channelIdle /\ slotIdle /\ RemoteInit

Next ==
  /\ UNCHANGED subject
  /\ \/ /\ subject = "channels" /\ ChannelNext
        /\ UNCHANGED <<slotVars, remoteVars>>
     \/ /\ subject = "slots" /\ SlotNext
        /\ UNCHANGED <<channelVars, remoteVars>>
     \/ /\ subject = "peers" /\ RemoteNext
        /\ UNCHANGED <<channelVars, slotVars>>

Spec == Init /\ [][Next]_<<subject, channelVars, slotVars, remoteVars>>

\* The state of each component has its type.
PeersTypeOK == ChannelTypeOK /\ SlotTypeOK /\ RemoteTypeOK

MCSymmetry ==
  Permutations(Channels) \cup Permutations(Copies)
    \cup Permutations(PeerSessions \ {""})
===============================================================================
