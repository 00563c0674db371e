---------------------------- MODULE MCHandshake ----------------------------
(***************************************************************************)
(* Instances of HandshakePipelines for TLC.                                *)
(***************************************************************************)
EXTENDS HandshakePipelines, TLC

OwnHandlers == "MySQLPipeline" :> {"CMySQLHandler", NoHandler}
               @@ "PostgreSQLPipeline" :> {"CPostgreSQLHandler", NoHandler}

\* A MySQL response and, after a switch to TLS, the login; a PostgreSQL request
\* and start-up message of two units each; without TLS, units for the loop too.
Units == "MySQLPipeline" :> ("client" :> 3 @@ "target" :> 3)
         @@ "PostgreSQLPipeline" :> ("client" :> 4 @@ "target" :> 2)
============================================================================
