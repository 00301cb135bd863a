---- MODULE MCMessaging ----
EXTENDS Messaging, TLC

Symmetries == Permutations(Workers) \cup Permutations(Slots)
              \cup Permutations(Pages)
====
