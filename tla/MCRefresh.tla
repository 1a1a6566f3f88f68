------------------------------ MODULE MCRefresh ------------------------------
(* The dashboard with a batch of three calls and a refresh of the bar chart    *)
(* and a table.                                                                *)
EXTENDS Refresh
MCNeeded == {1, 3}
MCCalls == <<"GetEventsByCluster", "GetTopSources">>
MCCharts == {"GetEventsByCluster"}
MCCatalogs == {<<"same", "same">>, <<"none", "same">>, <<"same", "other">>}
=============================================================================
