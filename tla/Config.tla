------------------------------- MODULE Config -------------------------------
(***************************************************************************)
(* The configuration and its file (internal/config/config.go).  The file   *)
(* is the sequence of its settings, a key and a text each; comments, blank *)
(* lines and lines without "=" set nothing and are left out.  A text is a  *)
(* pair of its form and what it says:                                      *)
(*   "none"  empty          "num"  a decimal number     "yes"  true, 1 ... *)
(*   "hex"   32 hex digits  "list" the numbers in a list of DC:IP entries, *)
(*   "word"  anything else         the malformed ones left out             *)
(***************************************************************************)
EXTENDS Integers, Sequences

Words == {"host", "mask_domain", "fake_tls_domain", "log_file", "cf_domains",
          "cf_update_url"}
Numbers == {"port", "buffer_size", "pool_size", "log_max_size",
            "log_max_files", "cf_update_interval"}
Flags == {"force_test_dc", "log_to_console", "verbose", "cf_auto_update",
          "cf_first"}
Keys == Words \cup Numbers \cup Flags \cup {"secret", "dc_ip"}

Text(form, says) == [form |-> form, says |-> says]
Empty == Text("none", 0)
Word(w) == Text("word", w)

(* A secret is its number; an empty one is no secret.                      *)
NoSecret == 0

(* Settings one after the other; 32 hex digits are not an empty secret.    *)
IsFile(settings) ==
  /\ Len(settings) \in Nat /\ DOMAIN settings = 1..Len(settings)
  /\ \A n \in DOMAIN settings :
       settings[n].key = "secret" /\ settings[n].text.form = "hex" =>
         settings[n].text.says \in Nat \ {NoSecret}

DefaultWords ==
  [ host |-> Word("127.0.0.1"), mask_domain |-> Word("www.google.com"),
    fake_tls_domain |-> Empty, log_file |-> Empty, cf_domains |-> Empty,
    cf_update_url |-> Word("raw.githubusercontent.com") ]

DefaultNumbers ==
  [ port |-> 1443, buffer_size |-> 262144, pool_size |-> 4,
    log_max_size |-> 10, log_max_files |-> 5, cf_update_interval |-> 3600 ]

DefaultFlags ==
  [ force_test_dc |-> FALSE, log_to_console |-> TRUE, verbose |-> TRUE,
    cf_auto_update |-> TRUE, cf_first |-> FALSE ]

Default(key, secret) ==
  CASE key \in Words   -> DefaultWords[key]
    [] key \in Numbers -> DefaultNumbers[key]
    [] key \in Flags   -> DefaultFlags[key]
    [] key = "secret"  -> secret
    [] key = "dc_ip"   -> {2, 4}

(* The secret is drawn at random.                                          *)
DefaultConfig(secret) == [key \in Keys |-> Default(key, secret)]

(* The texts setValue takes: the rest keeps the value it had.              *)
Takes(key, text) ==
  \/ key \in Words \cup Flags
  \/ key \in Numbers /\ text.form = "num"
  \/ key = "secret" /\ text.form = "hex"
  \/ key = "dc_ip" /\ text.form # "none"

Value(key, text) ==
  CASE key \in Words -> text
    [] key \in Flags -> text.form = "yes"
    [] key = "dc_ip" -> IF text.form = "list" THEN text.says ELSE {}
    [] OTHER -> text.says

setValue(config, setting) ==
  IF setting.key \in DOMAIN config /\ Takes(setting.key, setting.text)
  THEN [config EXCEPT ![setting.key] = Value(setting.key, setting.text)]
  ELSE config

(* The loop over the lines: the configuration after the first n settings.  *)
Loaded(config, settings) ==
  LET after[n \in 0..Len(settings)] ==
        IF n = 0 THEN config ELSE setValue(after[n - 1], settings[n])
  IN after

Load(config, settings) == Loaded(config, settings)[Len(settings)]

Written(key, value) ==
  CASE key \in Words -> value
    [] key \in Numbers -> Text("num", value)
    [] key \in Flags -> IF value THEN Text("yes", 0) ELSE Word("false")
    [] key = "secret" -> Text("hex", value)
    [] key = "dc_ip" -> IF value = {} THEN Empty ELSE Text("list", value)

(* The order in which SaveToFile writes.                                   *)
SaveOrder ==
  << "host", "port", "secret", "buffer_size", "pool_size", "force_test_dc",
     "mask_domain", "fake_tls_domain", "log_file", "log_max_size",
     "log_max_files", "log_to_console", "verbose", "cf_domains",
     "cf_auto_update", "cf_update_url", "cf_update_interval", "cf_first",
     "dc_ip" >>

Saved(config) ==
  [n \in DOMAIN SaveOrder |->
     LET key == SaveOrder[n] IN [key |-> key, text |-> Written(key, config[key])]]

Valid(config) ==
  /\ config.port \in 1..65535
  /\ config.buffer_size >= 4096
  /\ config.pool_size >= 0
  /\ config.mask_domain # Empty
  /\ config.log_max_size >= 1
  /\ config.log_max_files >= 1
=============================================================================
