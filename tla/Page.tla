-------------------------------- MODULE Page --------------------------------
(***************************************************************************)
(* A page while it loads and lives: the event stream (SockJS), which is    *)
(* opened by a script of the page (index.html 209), together with the      *)
(* script that comes after it (212), js/controls.js (Bundle).  The         *)
(* document is complete, and the transports that need its body can be      *)
(* tried, when velbusweb has answered for the bundle or has failed to; and *)
(* one process serves both, so that the end of one is the end of both.     *)
(***************************************************************************)
EXTENDS SockJS, Bundle

page_vars == <<vars, bundle_vars>>

PageInit == Init /\ BundleInit

\* The browser has an answer for the bundle, good or bad.
ScriptsDone == answers # <<>>

PageLoads == ScriptsDone /\ Load /\ UNCHANGED bundle_vars

\* The second answer to a request throws.
BundleStep ==
    /\ Serves
    /\ IF Alive' THEN UNCHANGED vars ELSE ServerRestarts

ProcessRestarts ==
    /\ ServerRestarts
    /\ IF started /\ unread \cup ticks # {} THEN ProcessEnds ELSE UNCHANGED bundle_vars

PageNext ==
    \/ Events /\ UNCHANGED bundle_vars
    \/ PageLoads
    \/ BundleStep
    \/ ProcessRestarts

\* The server answers, the network and the file system deliver, timers fire.
PageFairness ==
    /\ WF_page_vars(InfoArrives /\ UNCHANGED bundle_vars)
    /\ WF_page_vars(OnClose /\ UNCHANGED bundle_vars)
    /\ WF_page_vars(newSockJSconn /\ UNCHANGED bundle_vars)
    /\ WF_page_vars(PageLoads)
    /\ \A t \in Transport :
          /\ WF_page_vars(ServerOpens(t) /\ UNCHANGED bundle_vars)
          /\ WF_page_vars(Arrives(t) /\ UNCHANGED bundle_vars)
          /\ WF_page_vars(PollEnds(t) /\ UNCHANGED bundle_vars)
          /\ WF_page_vars(Breaks(t) /\ UNCHANGED bundle_vars)
    /\ WF_page_vars(\E listing \in Directory : readdir(listing) /\ UNCHANGED vars)
    /\ \A f \in File :
          /\ WF_page_vars(Skip(f) /\ UNCHANGED vars)
          /\ WF_page_vars(ReadFile(f) /\ BundleStep)

PageSpec == PageInit /\ [][PageNext]_page_vars /\ PageFairness
-----------------------------------------------------------------------------
PageTypeOK == TypeOK /\ BundleTypeOK

\* Once failures end, a page whose message handler does not throw is connected
\* and has got all that was written, with whichever transport the browser has:
\* also with one that waits for the document (sockjs-0.3.js 1080-1092), and so
\* for the bundle.
Reconnects ==
    [](throws = 0) =>
        <>[](/\ sockjs.readyState = "open"
             /\ Len(sockjs.got) = written[sockjs.transport])
=============================================================================
