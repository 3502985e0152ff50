------------------------------- MODULE MCPaging -------------------------------
(***************************************************************************)
(* A machine of a few frames; the image ends at every offset of a page.    *)
(***************************************************************************)
EXTENDS Paging

Ends == 1 .. 64
OneEnd == {40}
=============================================================================
