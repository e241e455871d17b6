SPECIFICATION Spec
CONSTANTS
    None = None
    Parts = {"link", "rpc", "messages", "net", "tftp", "http", "tls", "fetch"}
INVARIANTS
    
    WhatArrivesIsWhatWasSent
    AnswersAreTheirQuestions
PROPERTIES
    NeverLessSecure
CHECK_DEADLOCK FALSE
