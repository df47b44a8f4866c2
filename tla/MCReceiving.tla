------------------------------ MODULE MCReceiving ------------------------------
(***************************************************************************)
(* The receiving side, model-checked: the four components of the native    *)
(* source.  A behaviour is one of a single component, the subject; the     *)
(* others stay in an initial state.                                        *)
(***************************************************************************)
EXTENDS SourceTracks, SourceMedia, SourceAudio, SourceShell

VARIABLE subject

\* Each question gets what it needs: two publishers with two generations or
\* one with three tracks, or mutes, or requests and retries, or OBS's calls.
TrackBudget(s, h, k, e, m, x, v, c, d) ==
  [starts |-> s, handles |-> h, kinds |-> k, ends |-> e, mutes |-> m,
   messages |-> x, signals |-> v, connects |-> c, disconnects |-> d]
MCBudgets ==
  {TrackBudget(2, 2, {"video", "audio"}, 0, 0, 0, 0, 1, 0),
   TrackBudget(1, 2, TrackKinds, 1, 0, 0, 0, 1, 0),
   TrackBudget(2, 1, {"video"}, 0, 0, 1, 0, 1, 0),
   TrackBudget(1, 1, {"video"}, 0, 2, 0, 0, 1, 0),
   TrackBudget(1, 1, {"video", "audio"}, 0, 1, 0, 0, 1, 0),
   TrackBudget(1, 1, {"video"}, 1, 0, 1, 2, 1, 0),
   TrackBudget(1, 1, {"video", "audio"}, 0, 0, 0, 1, 2, 1)}

\* Transitions against two threads of the primary and one of the alpha track;
\* a failing decoder, also with packets out of order; mutes; packets out of
\* order; a full queue of alpha frames; and timestamps that wrap.
PacketBudget(v, a, f, p, r, k, c, m, x) ==
  [video |-> v, alpha |-> a, frames |-> f, parts |-> p, reorder |-> r,
   codecs |-> k, changes |-> c, mutes |-> m, failures |-> x]
MCMediaBudgets ==
  {PacketBudget(2, 1, 2, {"whole"}, FALSE, {"vp9"}, 3, 0, 0),
   PacketBudget(2, 2, 2, {"whole"}, FALSE, {"vp9"}, 2, 0, 1),
   PacketBudget(4, 0, 2, {"whole"}, TRUE, {"vp9"}, 1, 0, 1),
   PacketBudget(2, 1, 2, {"whole"}, FALSE, {"vp9"}, 2, 2, 0),
   PacketBudget(4, 0, 2, PacketParts, TRUE, {"h264"}, 1, 0, 0),
   PacketBudget(3, 0, 2, PacketParts, TRUE, {"h264"}, 2, 0, 0),
   PacketBudget(1, 3, 2, PacketParts, FALSE, {"vp9"}, 2, 0, 0),
   PacketBudget(1, 3, 3, {"whole"}, FALSE, {"vp9"}, 2, 0, 0),
   PacketBudget(2, 1, 3, {"whole"}, TRUE, {"vp9"}, 2, 0, 0)}

tracksIdle == TrackInit /\ left = CHOOSE b \in Budgets : TRUE
mediaIdle == MediaInit /\ allowed.changes = 3
shellIdle == ShellInit /\ user.settings = CHOOSE s \in Settings : s.stream # ""

Init ==
  \/ subject = "tracks" /\ TrackInit /\ mediaIdle /\ AudioInit /\ shellIdle
  \/ subject = "media"  /\ tracksIdle /\ MediaInit /\ AudioInit /\ shellIdle
  \/ subject = "audio"  /\ tracksIdle /\ mediaIdle /\ AudioInit /\ shellIdle
  \/ subject = "shell"  /\ tracksIdle /\ mediaIdle /\ AudioInit /\ ShellInit

Next ==
  /\ UNCHANGED subject
  /\ \/ /\ subject = "tracks" /\ TrackNext
        /\ UNCHANGED <<mediaVars, audioVars, shellVars>>
     \/ /\ subject = "media" /\ MediaNext
        /\ UNCHANGED <<trackVars, audioVars, shellVars>>
     \/ /\ subject = "audio" /\ AudioNext
        /\ UNCHANGED <<trackVars, mediaVars, shellVars>>
     \/ /\ subject = "shell" /\ ShellNext
        /\ UNCHANGED <<trackVars, mediaVars, audioVars>>

Spec == Init /\ [][Next]_<<subject, trackVars, mediaVars, audioVars, shellVars>>

\* The state of each component has its type.
ReceivingTypeOK == TracksTypeOK /\ MediaTypeOK /\ AudioTypeOK /\ ShellTypeOK

MCSymmetry ==
  Permutations(Publishers) \cup Permutations(VideoThreads)
    \cup Permutations(AudioThreads)
===============================================================================
