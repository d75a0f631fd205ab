---------------------------- MODULE RemoteListing ----------------------------
(***************************************************************************)
(* What ICloudClient.walk (ifolder_sync/icloud_client.py) promises to a    *)
(* pass, said without a cache: iCloud changes when it likes; a walk opens  *)
(* a window, and when it is over it shows each file as the file was at     *)
(* some moment inside the window.  A walk that fails shows nothing.  A     *)
(* file in doubt may be shown as anything; which files are, and since      *)
(* when, is the implementation's to say.                                   *)
(***************************************************************************)
CONSTANTS
    Files,
    None       \* no listing

VARIABLES
    state,     \* per file, what identifies its present content in iCloud
    walking,   \* a walk is open
    moments,   \* per file, its states since the walk was opened
    shown,     \* what the walk ends with, None until it does
    doubt      \* the files a walk may show wrongly

listing == <<state, walking, moments, shown>>

Closed == [f \in Files |-> {}]

ListingInit == walking = FALSE /\ moments = Closed /\ shown = None

Open ==
    /\ ~walking
    /\ walking' = TRUE
    /\ moments' = [f \in Files |-> {state[f]}]
    /\ UNCHANGED <<state, shown>>

Move ==
    /\ moments' = IF walking
                  THEN [f \in Files |-> moments[f] \cup {state'[f]}] ELSE moments
    /\ UNCHANGED <<walking, shown>>

Show ==
    /\ walking /\ shown = None
    /\ shown' # None
    /\ \A f \in Files \ doubt' : shown'[f] \in moments[f]
    /\ UNCHANGED <<state, walking, moments>>

\* The pass has its listing; or the walk raises; or the process is gone.
Close ==
    /\ walking
    /\ walking' = FALSE
    /\ moments' = Closed /\ shown' = None
    /\ UNCHANGED state

ListingNext == Open \/ Move \/ Show \/ Close

ListingSpec == ListingInit /\ [][ListingNext]_listing
=============================================================================
