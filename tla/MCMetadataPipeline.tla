------------------------ MODULE MCMetadataPipeline ------------------------
(***************************************************************************)
(* Instances of MetadataPipeline for TLC.                                  *)
(***************************************************************************)
EXTENDS MetadataPipeline

OnlyOwner == [ resolve_hostname |-> FALSE, lookup_asn_isp |-> TRUE ]
OnlyName  == [ resolve_hostname |-> TRUE, lookup_asn_isp |-> FALSE ]

OwnerOnly == { OnlyOwner }
InTurn    == { OnlyOwner, OnlyName }
=============================================================================
