--------------------------- MODULE MCConnections ---------------------------
(***************************************************************************)
(* Connections instantiated for TLC: the request set of the run.           *)
(***************************************************************************)
EXTENDS Connections

\* "malformed" is answered like "not_json", "power" acts like "other_mode",
\* "read" is answered like "get_face_status" with data that is no face, "fails"
\* like "not_json" after its acknowledgment, and "same_mode" does nothing that
\* another request does not do.
OneOfEachKind == Requests \ {"malformed", "power", "read", "fails", "same_mode"}
=============================================================================
