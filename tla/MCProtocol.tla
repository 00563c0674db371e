----------------------------- MODULE MCProtocol -----------------------------
(***************************************************************************)
(* Instances of ProtocolServer for TLC.                                    *)
(***************************************************************************)
EXTENDS ProtocolServer, TLC

Ask(path, method, auth, token, login) ==
    [path |-> path, method |-> method, auth |-> auth, token |-> token, login |-> login]

\* Patterns for single paths, and two that both match /files/new.
SomeRoutes ==
    << [paths |-> {"/files", "/files/new"},
        commands |-> "GET" :> "SendFile" @@ "POST" :> "Upload"],
       [paths |-> {"/files/new"}, commands |-> "PUT" :> "Upload"],
       [paths |-> {"/login"}, commands |-> "POST" :> "Login"],
       [paths |-> {"/logout"}, commands |-> "POST" :> "Logout"],
       [paths |-> {"/me"}, commands |-> "GET" :> "IsAuthenticated"] >>

Files(path, method) == Ask(path, method, "none", 0, "right")
UploadFile          == Files("/files", "POST")
LogIn(login)        == Ask("/login", "POST", "none", 0, login)
LogOut(auth)        == Ask("/logout", "POST", auth, 1, "right")
Me(auth, token)     == Ask("/me", "GET", auth, token, "right")

\* What two clients ask at the same time: uploads of one file; a check of a
\* token beside its logout, a logout that is refused and a login; a check of a
\* token that is yet to be issued; and requests without a command or a token.
SomeRequests ==
    {"a" :> x[1] @@ "b" :> x[2] : x \in
        { <<UploadFile, UploadFile>>,
          <<LogOut("bearer"), Me("bearer", 1)>>, <<LogOut("basic"), Me("bearer", 1)>>,
          <<LogIn("right"), Me("bearer", 2)>>, <<LogIn("right"), LogOut("bearer")>>,
          <<LogIn("wrong"), Files("/files", "GET")>>,
          <<LogIn("malformed"), Files("/files/new", "PUT")>>,
          <<LogOut("none"), Files("/none", "GET")>> }}
=============================================================================
