------------------------- MODULE AppendableBuffer --------------------------
(***************************************************************************)
(* util::buffer::appendable_buffer (src/util/buffer/appendable_buffer.cpp) *)
(* as a value: the size of its storage and how much of it is filled.       *)
(***************************************************************************)
EXTENDS Naturals

Buffer == [size : Nat, filled : Nat]

Empty == [size |-> 0, filled |-> 0]

Get_WholeSize_Bug(b, n) ==
  IF b.size < n THEN [b EXCEPT !.size = @ + n] ELSE b

(* get_appendable_buffer(n): the buffer that has a window of n at filled.  *)
Get(b, n) ==
  IF b.size - b.filled < n THEN [b EXCEPT !.size = @ + n] ELSE b

(* report_appended(n) *)
Report(b, n) ==
  [b EXCEPT !.filled = IF @ + n > b.size THEN b.size ELSE @ + n]

(* What a reader of begin() to end() sees: the storage, filled or not.     *)
Visible(b) == b.size

(* move_to(result) leaves the result with what is filled, and the buffer   *)
(* with what the result had, n, none of it filled.                         *)
Moved(b) == b.filled
AfterMove(n) == [size |-> n, filled |-> 0]

(* A buffer whose filled part is inside its storage.                       *)
WellFormed(b) == b \in Buffer /\ b.filled <= b.size

(* The next n bytes can be read into b at its filled size.                 *)
Window(b, n) == WellFormed(b) /\ b.filled + n <= b.size
=============================================================================
