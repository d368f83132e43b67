---------------------------- MODULE MCQosControl ----------------------------
(* The instances of QosControl that TLC explores.                          *)
EXTENDS QosControl

OnShare  == [exists |-> TRUE, on |-> TRUE, mode |-> SHARE_MODE]
OnPriv   == [exists |-> TRUE, on |-> TRUE, mode |-> PRIV_MODE]
OffShare == [exists |-> TRUE, on |-> FALSE, mode |-> SHARE_MODE]

\* Rules that are switched on and off, and whose mode changes.
EnableConfigs == {OnShare, OffShare}
AllConfigs == {OnShare, OnPriv, OffShare}
OneConfig == {OnShare}

One == {<<1>>}
SomeLists == {<<2>>, <<1, 2>>}

=============================================================================
