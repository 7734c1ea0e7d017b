---------------------------- MODULE MCSurveyLoad ----------------------------
\* An instance of SurveyLoad in which every group has a question.
EXTENDS SurveyLoad

MCGroupOf ==
    CHOOSE f \in [Question -> Group] : {f[q] : q \in Question} = Group
=============================================================================
