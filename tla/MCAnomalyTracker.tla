-------------------------- MODULE MCAnomalyTracker --------------------------
(* Small instance: a four bit bitmap; every raw policy with thresholds and  *)
(* sizes from 0 (unset) to one more than the bitmap.                        *)
EXTENDS AnomalyTrackerLoop

MCConfigured ==
  [consecutive_stop : 0..3, window_size : 0..5, window_stop : 0..5]
=============================================================================
