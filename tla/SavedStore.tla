----------------------------- MODULE SavedStore -----------------------------
(***************************************************************************)
(* What writing an image and opening it again promises of its files: the   *)
(* store in memory changes freely, the image keeps the list that was last  *)
(* written whole, and opening the image gives back exactly that list.      *)
(***************************************************************************)
EXTENDS FlashStore

VARIABLE
  saved      \* << >> while no image was written, else <<the list it holds>>

savedVars == <<files, ok, at, saved>>

SavedInit == StoreInit /\ saved = << >>

\* Any call on the store in memory, a write that fails included.
Edit == UNCHANGED saved /\ StoreNext

WriteImage == ok' = TRUE /\ saved' = <<files>> /\ UNCHANGED <<files, at>>

OpenImage == saved # << >> /\ ok' = TRUE /\ files' = saved[1] /\ UNCHANGED <<saved, at>>

SavedSpec == SavedInit /\ [][OpenImage \/ WriteImage \/ Edit]_savedVars

=============================================================================
