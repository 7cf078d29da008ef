---------------------------- MODULE MCImageStream ----------------------------
(* Small instances of ImageStream: a format of two samples for each lane, and  *)
(* one of three rows that four lanes cannot have and whose HDR frames exceed    *)
(* the limit.                                                                  *)
EXTENDS ImageStream

MCFormats == {<<8, 1>>, <<3, 3>>}
=============================================================================
