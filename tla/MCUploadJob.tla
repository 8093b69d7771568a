---------------------------- MODULE MCUploadJob ----------------------------
\* Instances of UploadJob for TLC.
EXTENDS UploadJob

\* Both channels can fill up, and the parser can have more to say than one message.
ASSUME MaxChunks > ChanCap /\ MaxProgress > SseCap /\ MaxProgress > 1
=============================================================================
