--------------------------- MODULE UploaderOutbox ---------------------------
(* The upload buffer of Uploader implements the abstract Outbox.           *)
EXTENDS Uploader

O == INSTANCE Outbox WITH accepted  <- tail,
                          delivered <- received,
                          forgotten <- head,
                          dropped   <- evicted

\* The buffer with its two overlapping drains, its retries and its imprecise
\* removal does what the comments of upload.go promise: no step forgets an
\* event that central has not seen unless an eviction pays for it.
RefinesOutbox == O!Spec

=============================================================================
