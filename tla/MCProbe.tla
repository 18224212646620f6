-------------------------------- MODULE MCProbe --------------------------------
(***************************************************************************)
(* The values of the responder's constants that a configuration file       *)
(* cannot express.                                                         *)
(***************************************************************************)
EXTENDS MdnsResponder

OneType == [s \in Services |-> "_http._tcp"]
NoTwins == [c \in Pcbs |-> c]
TwoTwins == [c \in Pcbs |-> CHOOSE d \in Pcbs : d # c]
=============================================================================
