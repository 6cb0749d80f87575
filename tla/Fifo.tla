--------------------------------- MODULE Fifo ---------------------------------
(***************************************************************************)
(* Genode::Fifo, a queue that is linked through its elements.  The library *)
(* is not part of the repository; what it does with an element that is in  *)
(* the queue already follows from its links: the next pointer of the       *)
(* element is cleared and the element becomes the tail where it stands, so *)
(* that whatever was queued behind it is lost.                             *)
(***************************************************************************)
EXTENDS Naturals, Sequences, SequencesExt

enqueue(queue, e) ==
  IF e \in ToSet(queue) THEN SubSeq(queue, 1, SelectInSeq(queue, LAMBDA x : x = e))
                        ELSE Append(queue, e)
=============================================================================
