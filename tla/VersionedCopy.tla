---------------------------- MODULE VersionedCopy ----------------------------
(***************************************************************************)
(* What a projection of a versioned record promises its readers: it shows  *)
(* one of the published versions, whole, and only ever moves on to a later *)
(* one.  It may skip versions and may lag behind for any time.             *)
(***************************************************************************)
EXTENDS Naturals, Sequences

CONSTANTS
  Values,    \* what a version may say
  View(_)    \* how the projection writes it down

VARIABLES
  history,   \* history[v]: what version v says
  version,   \* the version shown, 0 for none
  value      \* what is shown

copyVars == <<history, version, value>>

CopyInit == history = <<>> /\ version = 0

Publish ==
  /\ \E x \in Values : history' = Append(history, x)
  /\ UNCHANGED <<version, value>>

CatchUp ==
  /\ \E v \in (version + 1)..Len(history) :
       version' = v /\ value' = View(history[v])
  /\ UNCHANGED history

CopyNext == Publish \/ CatchUp

CopySpec == CopyInit /\ [][CopyNext]_copyVars
=============================================================================
