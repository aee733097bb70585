-------------------------- MODULE MCSseSubscription --------------------------
(* SseSubscription on a small instance.                                    *)
EXTENDS SseSubscription
=============================================================================
