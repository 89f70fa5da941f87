--------------------------- MODULE Participants ---------------------------
(***************************************************************************)
(* Names shared by the lobby and the transcript.                           *)
(***************************************************************************)
CONSTANTS
    Session,   \* session ids: token() returns a fresh one at each admission
    None       \* Go's nil: no session, no challenge, no blob
=============================================================================
