----------------------------- MODULE MCMessages -----------------------------
(* Two beacons, and queries whose parts fit the buffers or not. *)
EXTENDS Messages

CONSTANTS p, q

\* An id that fits but not together with the part behind it, one that does not
\* fit, a path that is not known, and nothing but '/'.
MCUrl == {[path |-> "tag", parts |-> <<6, 33>>], [path |-> "agent_status", parts |-> <<32>>],
          [path |-> "other", parts |-> <<>>], [path |-> "none", parts |-> <<>>]}

\* Short reads: the longest garbage, the one length that is neither garbage
\* nor keep-alive, a header, and a header with half a record.
MCPiece == {17, 18, 19, 45}
=============================================================================
