----------------------------- MODULE SystemProxy ----------------------------
(***************************************************************************)
(* The Windows system proxy (proxy_windows.go, handleSystemProxy in        *)
(* api.go): two values in the registry that programs read, the environment *)
(* variables kept with them in the registry, and the copy of these in the  *)
(* daemon's own environment.                                               *)
(*                                                                         *)
(* SetSystemProxy writes them one after the other, without a lock; a call  *)
(* is one API request.  Any write may fail.  A failure of the first two is *)
(* reported and ends the call, one of the variables is ignored.            *)
(***************************************************************************)
EXTENDS Naturals

CONSTANTS
    Caller,     \* API requests served at the same time
    Addr,       \* proxy addresses, as CleanProxyAddr returns them
    proxyEnvKeys    \* the variables: HTTP_PROXY, HTTPS_PROXY and NO_PROXY

VARIABLES
    enable,     \* ProxyEnable
    address,    \* ProxyServer, NoAddr if it was never set
    hkcu,       \* hkcu[k]: variable k in the registry, NoAddr if not there
    own,        \* own[k]: variable k in the daemon's environment
    caller,     \* caller[c]: "idle", "enable", "address" or "env"
    call,       \* call[c]: what c is to set; NoAddr to switch off
    todo,       \* todo[c]: the variables c has still to write
    clean       \* clean[c]: history: no other call ran beside c, none of
                \* its writes has failed and the user wrote nothing himself

proxyVars == <<enable, address, hkcu, own, caller, call, todo, clean>>

NoAddr  == "none"
NoProxy == "localhost,127.0.0.1,..."

(* What the variable k is to hold: NO_PROXY names the hosts that are       *)
(* reached without a proxy, whatever the proxy is.                         *)
Content(k, a) == IF a # NoAddr /\ k = "NO_PROXY" THEN NoProxy ELSE a
Environment   == {e \in [proxyEnvKeys -> Addr \cup {NoAddr, NoProxy}] :
                    \A k \in proxyEnvKeys : e[k] \in {Content(k, a) : a \in Addr \cup {NoAddr}}}

ProxyTypeOK ==
    /\ enable \in BOOLEAN
    /\ address \in Addr \cup {NoAddr}
    /\ hkcu \in Environment
    /\ own \in Environment
    /\ caller \in [Caller -> {"idle", "enable", "address", "env"}]
    /\ call \in [Caller -> Addr \cup {NoAddr}]
    /\ todo \in [Caller -> SUBSET proxyEnvKeys]
    /\ clean \in [Caller -> BOOLEAN]
    /\ \A c \in Caller : caller[c] = "address" => call[c] # NoAddr

ProxyInit ==
    /\ enable = FALSE
    /\ address = NoAddr
    /\ hkcu = [k \in proxyEnvKeys |-> NoAddr] /\ own = hkcu
    /\ caller = [c \in Caller |-> "idle"]
    /\ call = [c \in Caller |-> NoAddr]
    /\ todo = [c \in Caller |-> {}]
    /\ clean = [c \in Caller |-> FALSE]

-----------------------------------------------------------------------------
Busy == {c \in Caller : caller[c] # "idle"}

Returns(c) ==
    /\ caller' = [caller EXCEPT ![c] = "idle"]
    /\ call' = [call EXCEPT ![c] = NoAddr]
    /\ todo' = [todo EXCEPT ![c] = {}]
    /\ clean' = [clean EXCEPT ![c] = FALSE]

(* A call that begins beside others runs beside them and they beside it.   *)
Begin(c, a) ==
    /\ caller[c] = "idle"
    /\ caller' = [caller EXCEPT ![c] = "enable"]
    /\ call' = [call EXCEPT ![c] = a]
    /\ clean' = [d \in Caller |-> IF d = c THEN Busy = {} ELSE FALSE]
    /\ UNCHANGED <<enable, address, hkcu, own, todo>>

(* Slip: the address is written, and what it is, also to switch off.       *)
BugWriteEnable(c) ==
    /\ caller[c] = "enable"
    /\ enable' = (call[c] # NoAddr)
    /\ caller' = [caller EXCEPT ![c] = "address"]
    /\ todo' = [todo EXCEPT ![c] = proxyEnvKeys]
    /\ UNCHANGED <<address, hkcu, own, call, clean>>

WriteEnable(c) ==
    /\ caller[c] = "enable"
    /\ enable' = (call[c] # NoAddr)
    /\ caller' = [caller EXCEPT ![c] = IF call[c] = NoAddr THEN "env" ELSE "address"]
    /\ todo' = [todo EXCEPT ![c] = proxyEnvKeys]
    /\ UNCHANGED <<address, hkcu, own, call, clean>>

WriteAddress(c) ==
    /\ caller[c] = "address"
    /\ address' = call[c]
    /\ caller' = [caller EXCEPT ![c] = "env"]
    /\ UNCHANGED <<enable, hkcu, own, call, todo, clean>>

(* The keys cannot be opened or one of the first two writes fails: the     *)
(* caller is told, and what is written stays written.                      *)
Fails(c) ==
    /\ caller[c] \in {"enable", "address"}
    /\ Returns(c)
    /\ UNCHANGED <<enable, address, hkcu, own>>

(* Slip: variables are only set, never removed.                            *)
BugWriteEnv(c, k) ==
    /\ caller[c] = "env" /\ k \in todo[c]
    /\ \/ hkcu' = [hkcu EXCEPT ![k] = IF call[c] = NoAddr THEN @ ELSE Content(k, call[c])] /\ UNCHANGED clean
       \/ UNCHANGED hkcu /\ clean' = [clean EXCEPT ![c] = FALSE]
    /\ own' = [own EXCEPT ![k] = Content(k, call[c])]
    /\ todo' = [todo EXCEPT ![c] = @ \ {k}]
    /\ UNCHANGED <<enable, address, caller, call>>

(* The variables come in any order, as those of a map do.                  *)
WriteEnv(c, k) ==
    /\ caller[c] = "env" /\ k \in todo[c]
    /\ \/ hkcu' = [hkcu EXCEPT ![k] = Content(k, call[c])] /\ UNCHANGED clean
       \/ UNCHANGED hkcu /\ clean' = [clean EXCEPT ![c] = FALSE]
    /\ own' = [own EXCEPT ![k] = Content(k, call[c])]
    /\ todo' = [todo EXCEPT ![c] = @ \ {k}]
    /\ UNCHANGED <<enable, address, caller, call>>

Answer(c) ==
    /\ caller[c] = "env" /\ todo[c] = {}
    /\ Returns(c)
    /\ UNCHANGED <<enable, address, hkcu, own>>

(* The user or another program changes something in the registry behind    *)
(* the daemon's back.                                                      *)
Meddle ==
    /\ \/ enable' = ~enable /\ UNCHANGED <<address, hkcu>>
       \/ address' \in Addr \cup {NoAddr} /\ UNCHANGED <<enable, hkcu>>
       \/ /\ \E k \in proxyEnvKeys, a \in Addr \cup {NoAddr} :
               hkcu' = [hkcu EXCEPT ![k] = Content(k, a)]
          /\ UNCHANGED <<enable, address>>
    /\ clean' = [c \in Caller |-> FALSE]
    /\ UNCHANGED <<own, caller, call, todo>>

(* The daemon ends and its calls with it; the next one inherits the        *)
(* variables of the session that starts it: those of the registry, or of   *)
(* an older one that knows those the daemon had.  Nothing is switched off. *)
ProxyRestart ==
    /\ caller' = [c \in Caller |-> "idle"]
    /\ call' = [c \in Caller |-> NoAddr]
    /\ todo' = [c \in Caller |-> {}]
    /\ clean' = [c \in Caller |-> FALSE]
    /\ own' \in {hkcu, own}
    /\ UNCHANGED <<enable, address, hkcu>>

CallNext(c) ==
    \/ WriteEnable(c) \/ WriteAddress(c) \/ Fails(c) \/ Answer(c)
    \/ \E k \in proxyEnvKeys : WriteEnv(c, k)

-----------------------------------------------------------------------------
(* GetSystemProxyInfo: the daemon's own variables hide those of the        *)
(* registry.                                                               *)
Shown(k) == IF own[k] # NoAddr THEN own[k] ELSE hkcu[k]

(* Whatever mixture earlier calls, failures or crashes have left behind, a *)
(* call that nothing disturbs leaves registry, variables and what the API  *)
(* shows of them in agreement.                                             *)
CallRepairs ==
    \A c \in Caller :
        caller[c] = "env" /\ todo[c] = {} /\ clean[c] =>
            /\ enable = (call[c] # NoAddr)
            /\ enable => address = call[c]
            /\ \A k \in proxyEnvKeys : hkcu[k] = Content(k, call[c]) /\ Shown(k) = hkcu[k]
=============================================================================
