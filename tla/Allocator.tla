------------------------------ MODULE Allocator ------------------------------
(***************************************************************************)
(* What kheap.h promises the rest of the kernel: alloc returns "a          *)
(* contiguous region of memory 'size' in size", starting on a page         *)
(* boundary when page_align is set, that belongs to its caller until free  *)
(* gets it back.  No header, hole, index or page appears here.             *)
(***************************************************************************)
EXTENDS Integers

CONSTANTS Sizes,  \* request sizes, in words
          Aligns, \* values of page_align a caller may pass
          Words,  \* every word address
          PAGE,   \* words of a page
          Idle    \* "no call of alloc is in progress"

VARIABLES live,   \* regions callers hold, as [ptr, size]
          call    \* the call of alloc in progress, or Idle

vars == <<live, call>>

Region(b) == b.ptr .. b.ptr + b.size - 1

Init == live = {} /\ call = Idle

Request(size, page_align) ==
  /\ call = Idle
  /\ call' = [size |-> size, align |-> page_align]
  /\ UNCHANGED live

(* The region granted is any one that meets no region still held.          *)
Grant(p) ==
  /\ call # Idle
  /\ call.align > 0 => p % PAGE = 0
  /\ LET b == [ptr |-> p, size |-> call.size]
     IN /\ Region(b) \subseteq Words
        /\ \A other \in live : Region(b) \cap Region(other) = {}
        /\ live' = live \cup {b}
  /\ call' = Idle

Release(b) ==
  /\ call = Idle
  /\ live' = live \ {b}
  /\ UNCHANGED call

Next ==
  \/ \E size \in Sizes, page_align \in Aligns : Request(size, page_align)
  \/ \E p \in Words : Grant(p)
  \/ \E b \in live : Release(b)

(* alloc has no way to refuse: every call is granted a region.             *)
Spec == Init /\ [][Next]_vars /\ WF_vars(\E p \in Words : Grant(p))
=============================================================================
