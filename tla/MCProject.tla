------------------------------ MODULE MCProject ------------------------------
EXTENDS Project

\* Two stages: the script prepares the data, then trains the model.
MCStages ==
    <<[script |-> "steps.py", deps |-> {"raw"}, outs |-> {"data"}],
      [script |-> "steps.py", deps |-> {"data"}, outs |-> {"model"}]>>
=============================================================================
