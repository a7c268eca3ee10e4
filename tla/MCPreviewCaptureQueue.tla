----------------------- MODULE MCPreviewCaptureQueue ------------------------
(***************************************************************************)
(* Small instances of PreviewCaptureQueue: two places and two that wait,   *)
(* so that it shows which of those in the queue is taken.                  *)
(***************************************************************************)
EXTENDS PreviewCaptureQueue, TLC

=============================================================================
