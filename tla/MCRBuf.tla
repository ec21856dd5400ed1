------------------------------- MODULE MCRBuf -------------------------------
(***************************************************************************)
(* RBuf for model checking.  Lengths reach past the size of the buffer     *)
(* and past the largest uint16_t.                                          *)
(***************************************************************************)
EXTENDS RBuf

MCLengths == 0..(Word + 1)

\* Every flag occurs set and clear, and with the ones it interacts with.
MCConfigs == {
  {},
  {"ALLOW_OVERWRITE"},
  {"ALLOW_OVERWRITE", "ZERO_MEM_ALWAYS", "GET_SUSPEND"},
  {"NO_PARTIAL_WRITE", "NO_PEEKING", "ADD_SUSPEND"}}
=============================================================================
