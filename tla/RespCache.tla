----------------------------- MODULE RespCache -----------------------------
(***************************************************************************)
(* The ring of the last response frames in app_ctrl.c, from which the MCU  *)
(* answers a command that comes again under the same sequence number.      *)
(* Used by the modules in which responses go out; a frame has at least the *)
(* fields cmd and seq.                                                     *)
(***************************************************************************)
EXTENDS Naturals, Sequences

CONSTANTS
    CacheSize,  \* RESP_CACHE_SIZE
    NoFrame

VARIABLES g_resp_cache, g_resp_cache_idx

\* resp_cache_save for one frame after the other: a slot holds the last of the
\* frames that land on it.
CacheSave(frames) ==
    LET LandsOn(k, i) == (g_resp_cache_idx + k - 1) % CacheSize = i
        Last(i) == {k \in DOMAIN frames :
                      /\ LandsOn(k, i)
                      /\ \A l \in (k + 1)..Len(frames) : ~LandsOn(l, i)}
    IN /\ g_resp_cache' = [i \in DOMAIN g_resp_cache |->
                             IF Last(i) = {} THEN g_resp_cache[i]
                             ELSE frames[CHOOSE k \in Last(i) : TRUE]]
       /\ g_resp_cache_idx' = (g_resp_cache_idx + Len(frames)) % CacheSize

Cached(i, cmd, seq) == /\ g_resp_cache[i] # NoFrame
                       /\ g_resp_cache[i].cmd = cmd
                       /\ g_resp_cache[i].seq = seq

\* resp_cache_resend finds the first slot that fits.
FirstCached(i, cmd, seq) == /\ Cached(i, cmd, seq)
                            /\ \A j \in 0..(i - 1) : ~Cached(j, cmd, seq)
===========================================================================
