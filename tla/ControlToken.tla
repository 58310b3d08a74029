---------------------------- MODULE ControlToken ----------------------------
(***************************************************************************)
(* What the viewer registry promises about input control of one KVM        *)
(* session.  Viewers stand in a line in the order in which they connected. *)
(* At most one of them is the holder.  Control is taken from a holder who  *)
(* stays only by granting a claim that is still open; when the holder      *)
(* leaves or surrenders, control goes to the viewer nearest the front of   *)
(* the line, and to nobody else.                                           *)
(***************************************************************************)
EXTENDS Naturals, Sequences, SequencesExt

CONSTANTS
    Viewers,    \* viewer identifiers
    NoViewer    \* "nobody"

VARIABLES
    line,       \* the connections, named by their viewer, oldest first
    holder,     \* the viewer whose input reaches the BMC, or NoViewer
    claim       \* the viewer asking for control, or NoViewer

vars == <<line, holder, claim>>

InLine(v) == \E i \in 1..Len(line) : line[i] = v

Init ==
    /\ line = <<>>
    /\ holder = NoViewer
    /\ claim = NoViewer

\* A viewer connects, for the first time or once more.
Join(v) ==
    /\ line' = Append(line, v)
    /\ holder' = IF holder = NoViewer THEN v ELSE holder
    /\ UNCHANGED claim

\* One of a viewer's connections ends.  If the viewer held control, the front
\* of the line has it now.
Leave(v) ==
    /\ \E i \in 1..Len(line) : line[i] = v /\ line' = RemoveAt(line, i)
    /\ holder' = CASE holder # v -> holder
                   [] holder = v /\ line' = <<>> -> NoViewer
                   [] holder = v /\ line' # <<>> -> line'[1]
    /\ UNCHANGED claim

\* A viewer without control asks for it; a newer claim replaces an older one.
Claim(v) ==
    /\ InLine(v)
    /\ v # holder
    /\ claim' = v
    /\ UNCHANGED <<line, holder>>

\* The claim is accepted, or nobody answered it in time.
Grant ==
    /\ InLine(claim)
    /\ holder' = claim
    /\ claim' = NoViewer
    /\ UNCHANGED line

\* The claim is denied, or its viewer has gone.
Drop ==
    /\ claim' = NoViewer
    /\ UNCHANGED <<line, holder>>

\* The holder gives control to the first other viewer in the line.
Surrender ==
    /\ InLine(holder)
    /\ \/ /\ \A i \in 1..Len(line) : line[i] = holder
          /\ holder' = NoViewer
       \/ \E i \in 1..Len(line) :
             /\ line[i] # holder
             /\ \A j \in 1..(i - 1) : line[j] = holder
             /\ holder' = line[i]
    /\ UNCHANGED <<line, claim>>

Next ==
    \/ \E v \in Viewers : Join(v) \/ Leave(v) \/ Claim(v)
    \/ Grant
    \/ Drop
    \/ Surrender

Spec == Init /\ [][Next]_vars
=============================================================================
