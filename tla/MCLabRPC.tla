------------------------------ MODULE MCLabRPC ------------------------------
(* An instance of LabRPC for TLC. *)
EXTENDS LabRPC

CONSTANT e1

OneEnd == [c \in Request |-> e1]

=============================================================================
