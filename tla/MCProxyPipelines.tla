------------------------- MODULE MCProxyPipelines -------------------------
(***************************************************************************)
(* Instances of ProxyPipelines for TLC.                                    *)
(***************************************************************************)
EXTENDS ProxyPipelines

ClosingPipelines == {p \in AllPipelines : p.closesOnError}
OnlyTLSStart     == {ClickHouseTLSStartPipeline}
OnlyTLSExchange  == {ClickHouseTLSExchangePipeline}

\* All but two: CSnowflakeHttpHandler differs from CHttpHandler in the form it
\* leaves a packet in, CPostgreSQLHandler is checked with its own plugin.
RelayHandlers    == (HandlerNames \ {"CSnowflakeHttpHandler", "CPostgreSQLHandler"})
                        \cup {NoHandler}

\* A handler that never throws, one that may on any buffer, and none.
LiveHandlers     == {"BaseProxyHandler", "CHWirePTHandler", NoHandler}
===========================================================================
