--------------------------- MODULE MCBackupTarget ---------------------------
(***************************************************************************)
(* Instances of BackupTarget for TLC: the values that users submit.        *)
(***************************************************************************)
EXTENDS BackupTarget

CONSTANTS h1, b1, b2, k1, k2

S3(b, k) == [type |-> "s3", host |-> h1, bucket |-> b, keys |-> k]
Plain(t, h) == [type |-> t, host |-> h, bucket |-> "", keys |-> NoValue]

\* S3 with either of two key pairs, or with keys already stripped; NFS; the
\* default; a value that is not JSON; a type that does not exist.
Mixed == {S3(b1, k1), S3(b1, k2), S3(b1, NoValue), Plain("nfs", h1), Plain("default", ""),
          Plain("garbage", ""), Plain("other", h1)}
TwoBuckets == {S3(b1, k1), S3(b2, k1)}
=============================================================================
