------------------------------- MODULE MCSif0 -------------------------------
(* A FIFO of eight words, and packets with each amount of padding: of no     *)
(* words, of three and six, and of eight and nine, which do not fit with     *)
(* their tag.  Six words and a tag fill the FIFO, so that their padding      *)
(* overruns it.  The DMAC is disabled at first and whenever the EE likes.    *)
EXTENDS Sif0
=============================================================================
