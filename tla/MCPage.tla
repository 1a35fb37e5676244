------------------------------ MODULE MCPage ------------------------------
\* An instance of Page for TLC.
EXTENDS Page

\* A browser of today, one without websockets, and one with nothing.
Browsers == {Protocol, Protocol \ {"websocket"}, {"jsonp-polling"}}

\* The file that is no script comes first or between scripts.
Names3 == {"common.js", "README", "relay.js"}
Scripts2 == Names3 \ {"README"}
Listings == {<<"common.js", "README", "relay.js">>, <<"README", "relay.js">>}
=============================================================================
