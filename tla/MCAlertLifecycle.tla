--------------------------- MODULE MCAlertLifecycle ---------------------------
(* Small instances of AlertLifecycle: segments of three ticks. *)
EXTENDS AlertLifecycle

\* Healthy; from the beginning, throughout, two intervals apart,
\* and two that touch.
MCPictures ==
    {<<>>, <<<<0, 2>>>>, <<<<0, 3>>>>,
     <<<<0, 1>>, <<2, 3>>>>, <<<<0, 1>>, <<1, 3>>>>}

FreezeOnly == {"video_freeze"}

AllChecks == {"black_screen", "video_freeze", "audio_loss", "macroblocking"}
=============================================================================
