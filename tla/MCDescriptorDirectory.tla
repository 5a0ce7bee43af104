----------------------- MODULE MCDescriptorDirectory -----------------------
(***************************************************************************)
(* A small instance of DescriptorDirectory.                                *)
(***************************************************************************)
EXTENDS DescriptorDirectory

\* The local index: a file that was cut short, and an old copy of address 2.
SomeFiles == <<Torn, [addr |-> 2, epoch |-> 0], [addr |-> 2, epoch |-> 1]>>
=============================================================================
